---- MODULE Spec2Model ----
(***************************************************************************)
(* OcaHandler (src/api/providers/oca-handler.ts): the streaming response   *)
(* normalizer.  createMessage consumes raw protocol events, either chat    *)
(* completion chunks or Responses API events, and yields normalized        *)
(* events: text, reasoning, tool_call_partial, tool_call, tool_call_end,   *)
(* usage.                                                                  *)
(***************************************************************************)
EXTENDS Integers, Sequences, FiniteSets, TLC

(* ---------------------------------------------------------------------- *)
(* Bounds of the model                                                     *)
(* ---------------------------------------------------------------------- *)

\* Raw events one createMessage invocation takes from its transport.
MaxEvents == 3

\* Raw events one invocation takes when two invocations run concurrently.
MaxConcEvents == 2

\* Chunks of the stream of the chat scenario.
MaxScenarioChunks == 5

\* Raw events of a stream that may fail.
MaxErrEvents == 2

\* Raw events of a stream of text, reasoning and refusal deltas.
MaxDeltaEvents == 2

\* Messages of a conversation given to formatFullConversation.
MaxPullEvents == 2

MaxFrameEvents == 2

MaxChatChunks == 3

MaxSeqEvents == 2

MaxMessages == 2

\* createMessage invocations on the one OcaHandler instance.
Calls == {1, 2}

(* ---------------------------------------------------------------------- *)
(* JavaScript values                                                       *)
(* ---------------------------------------------------------------------- *)

\* `undefined` in a string-valued field.
Undefined == "<undefined>"

\* `undefined` in a number-valued field.
NoNum == -1

\* JS truthiness of a string-or-undefined value: `if (v)`.
Truthy(v) == v # Undefined /\ v # ""

\* typeof v === "string"
IsString(v) == v # Undefined

\* a || b on string-or-undefined values
OrElse(a, b) == IF Truthy(a) THEN a ELSE b

\* n || 0 on number-or-undefined values
OrZero(n) == IF n = NoNum THEN 0 ELSE n

\* a ?? b on number-or-undefined values
Coalesce(a, b) == IF a # NoNum THEN a ELSE b

Range(s) == {s[i] : i \in 1..Len(s)}

(* ---------------------------------------------------------------------- *)
(* Normalized events (the chunks createMessage yields)                     *)
(* ---------------------------------------------------------------------- *)

TextEv(t) == [type |-> "text", text |-> t]

ReasoningEv(t) == [type |-> "reasoning", text |-> t]

PartialEv(idx, id, name, args) ==
    [type |-> "tool_call_partial", index |-> idx, id |-> id, name |-> name,
     arguments |-> args]

ToolCallEv(id, name, args) ==
    [type |-> "tool_call", id |-> id, name |-> name, arguments |-> args]

EndEv(id) == [type |-> "tool_call_end", id |-> id]

UsageEv(i, o) == [type |-> "usage", inputTokens |-> i, outputTokens |-> o]

(* ---------------------------------------------------------------------- *)
(* State                                                                   *)
(* ---------------------------------------------------------------------- *)

VARIABLES
    pendingToolCallId,    \* OcaHandler.pendingToolCallId (instance field)
    pendingToolCallName,  \* OcaHandler.pendingToolCallName (instance field)
    lastResponseId,       \* OcaHandler.lastResponseId (instance field)
    pc,                   \* per invocation: idle, streaming, flushing, done,
                          \* failed, abandoned
    protocol,             \* per invocation: none, chat, responses
    sent,                 \* per invocation: raw events taken from the transport
    out,                  \* per invocation: normalized events yielded so far
    origin,               \* per invocation: for each yielded event, the position
                          \* in sent of the raw event it was produced from
                          \* (Len(sent) + 1 for the flush after the loop)
    activeToolCallIds,    \* per invocation: the chat loop's Set, in insertion order
    op,                   \* per invocation: none, createMessage, completePrompt
    token,                \* per invocation: what OcaTokenManager.getValid() returned
    requests,             \* per invocation: requests issued to the endpoint
    failure,              \* per invocation: where it failed, the raw error and the
                          \* error thrown to the caller
    result,               \* per invocation: the string completePrompt returned
    decoration,           \* a call of decorateErrorWithOpcRequestId on its own:
                          \* its arguments and, once returned, its result
    request,              \* the building of a request on its own: what it is
                          \* built from and, once built, the payload; after
                          \* completePrompt, the answer it received
    pulling,              \* per invocation: the consumer's next() is outstanding
                          \* and the generator is running
    pending,              \* per invocation: what the suspended loop body has
                          \* still to yield for the raw event taken last
    toolCallIdentityById, \* OcaHandler.toolCallIdentityById (instance field of
                          \* the second variant of the handler): {id, name}
                          \* records, one for an id
    downloader,           \* a call of VSCodeDownloader.downloadAndExtract: the
                          \* cache it finds, the sources it has tried and what
                          \* it returned or threw
    setup,                \* a run of the e2e global setup: the downloaders it
                          \* has invoked, VSCODE_EXECUTABLE_PATH and what it
                          \* threw
    selector              \* a mounted ModelSelector: its props, its state, the
                          \* saved OCA model id and the messages it has posted

vars == <<pendingToolCallId, pendingToolCallName, lastResponseId, pc, protocol,
          sent, out, origin, activeToolCallIds, op, token, requests, failure,
          result, decoration, request, pulling, pending, toolCallIdentityById,
          downloader, setup, selector>>

\* The consumer's side of the generator.
consumer == <<pulling, pending>>

\* What an invocation ends with, and the decorator call on its own.
outcome == <<op, token, requests, failure, result, decoration, request>>

handlerFields ==
    <<pendingToolCallId, pendingToolCallName, lastResponseId, toolCallIdentityById>>

\* What lives outside the handler: the e2e tooling and the webview's selector.
outside == <<downloader, setup, selector>>

\* Nothing called, nothing run, nothing mounted.
NotCalled == [pc |-> "idle"]

(* ---------------------------------------------------------------------- *)
(* Chat completion chunks                                                  *)
(* ---------------------------------------------------------------------- *)

NoUsage == [present |-> FALSE, prompt_tokens |-> NoNum, completion_tokens |-> NoNum]

ChatUsageOf(p, c) == [present |-> TRUE, prompt_tokens |-> p, completion_tokens |-> c]

\* One entry of choices[0].delta.tool_calls.
ToolCallDelta(idx, id, name, args) ==
    [index |-> idx, id |-> id, name |-> name, arguments |-> args]

\* A chunk with nothing in it.
EmptyChunk ==
    [kind |-> "chunk", content |-> Undefined, tool_calls |-> <<>>,
     reasoning_content |-> Undefined, reasoning |-> Undefined,
     finish_reason |-> Undefined, usage |-> NoUsage]

FirstC1 == ToolCallDelta(0, "c1", "lookup", "x")
MoreC1 == ToolCallDelta(0, Undefined, Undefined, "y")
FirstC2 == ToolCallDelta(1, "c2", "search", "x")
MoreC2 == ToolCallDelta(1, Undefined, Undefined, "y")

\* The chunks a chat stream is drawn from.
ChatChunks ==
    { [EmptyChunk EXCEPT !.content = t] : t \in {"a", "b", ""} }
    \cup { [EmptyChunk EXCEPT !.tool_calls = tcs] :
             tcs \in { <<FirstC1>>, <<MoreC1>>, <<FirstC2>>, <<MoreC2>>,
                       <<FirstC1, FirstC2>>, <<MoreC1, MoreC2>> } }
    \cup { [EmptyChunk EXCEPT !.reasoning_content = "r"],
           [EmptyChunk EXCEPT !.reasoning = "s"],
           [EmptyChunk EXCEPT !.reasoning_content = "", !.reasoning = "s"] }
    \cup { [EmptyChunk EXCEPT !.finish_reason = f] : f \in {"stop", "tool_calls"} }
    \cup { [EmptyChunk EXCEPT !.usage = ChatUsageOf(10, 5)],
           [EmptyChunk EXCEPT !.finish_reason = "stop", !.usage = ChatUsageOf(10, NoNum)],
           [EmptyChunk EXCEPT !.content = "a", !.tool_calls = <<FirstC1>>,
                              !.reasoning_content = "r", !.finish_reason = "tool_calls",
                              !.usage = ChatUsageOf(10, 5)] }

\* activeToolCallIds.add(id): a JS Set keeps insertion order and no duplicates.
SetAdd(s, id) == IF id \in Range(s) THEN s ELSE Append(s, id)

\* The Set after the tool_calls loop of one chunk.
RECURSIVE AddToolCallIds(_, _)
AddToolCallIds(active, tcs) ==
    IF tcs = <<>> THEN active
    ELSE AddToolCallIds(IF Truthy(Head(tcs).id) THEN SetAdd(active, Head(tcs).id)
                        ELSE active,
                        Tail(tcs))

\* if (delta?.content) yield text
ChatText(chunk) ==
    IF Truthy(chunk.content) THEN <<TextEv(chunk.content)>> ELSE <<>>

\* for (const toolCall of delta.tool_calls) yield tool_call_partial, in array
\* order, with whatever id and name the entry carries.
ChatToolCallPartials(tcs) ==
    [i \in 1..Len(tcs) |->
        PartialEv(tcs[i].index, tcs[i].id, tcs[i].name, tcs[i].arguments)]

\* reasoning_content if it is a string, else reasoning if it is a string
ChatReasoningText(chunk) ==
    IF IsString(chunk.reasoning_content) THEN chunk.reasoning_content
    ELSE IF IsString(chunk.reasoning) THEN chunk.reasoning
    ELSE Undefined

ChatReasoning(chunk) ==
    IF Truthy(ChatReasoningText(chunk))
    THEN <<ReasoningEv(ChatReasoningText(chunk))>> ELSE <<>>

\* for (const id of activeToolCallIds) yield tool_call_end
FlushEnds(active) == [i \in 1..Len(active) |-> EndEv(active[i])]

\* if (finishReason === "tool_calls" && activeToolCallIds.size > 0)
ChatFinish(chunk, active) ==
    IF chunk.finish_reason = "tool_calls" /\ Len(active) > 0
    THEN FlushEnds(active) ELSE <<>>

\* if (chunk.usage) yield usage
ChatUsage(chunk) ==
    IF chunk.usage.present
    THEN <<UsageEv(OrZero(chunk.usage.prompt_tokens),
                   OrZero(chunk.usage.completion_tokens))>>
    ELSE <<>>

\* The same chunks of one chunk with the reasoning ahead of the tool calls.
ChatChunkYieldsReasoningFirst(chunk, active) ==
    ChatText(chunk)
    \o ChatReasoning(chunk)
    \o ChatToolCallPartials(chunk.tool_calls)
    \o ChatFinish(chunk, AddToolCallIds(active, chunk.tool_calls))
    \o ChatUsage(chunk)

\* Everything the loop body yields for one chunk, in order.
ChatChunkYields(chunk, active) ==
    ChatText(chunk)
    \o ChatToolCallPartials(chunk.tool_calls)
    \o ChatReasoning(chunk)
    \o ChatFinish(chunk, AddToolCallIds(active, chunk.tool_calls))
    \o ChatUsage(chunk)

\* The Set never cleared.
ChatChunkActiveKept(chunk, active) == AddToolCallIds(active, chunk.tool_calls)

\* activeToolCallIds after the loop body.
ChatChunkActive(chunk, active) ==
    IF chunk.finish_reason = "tool_calls"
       /\ Len(AddToolCallIds(active, chunk.tool_calls)) > 0
    THEN <<>>
    ELSE AddToolCallIds(active, chunk.tool_calls)

(* ---------------------------------------------------------------------- *)
(* Responses API events                                                    *)
(* ---------------------------------------------------------------------- *)

\* event.item when the event carries none.
NoItem ==
    [present |-> FALSE, type |-> Undefined, call_id |-> Undefined,
     tool_call_id |-> Undefined, id |-> Undefined, name |-> Undefined,
     fn_name |-> Undefined, function_name |-> Undefined, text |-> Undefined,
     content |-> <<>>, arguments |-> Undefined, fn_arguments |-> Undefined,
     function_arguments |-> Undefined]

\* event.response when the event carries none.
NoResponse ==
    [present |-> FALSE, id |-> Undefined, usage_present |-> FALSE,
     input_tokens |-> NoNum, output_tokens |-> NoNum,
     prompt_tokens |-> NoNum, completion_tokens |-> NoNum]

\* event.usage when the event carries none.
NoEventUsage ==
    [present |-> FALSE, input_tokens |-> NoNum, output_tokens |-> NoNum,
     prompt_tokens |-> NoNum, completion_tokens |-> NoNum]

\* An event with the given discriminator and no other field.
Event(t) ==
    [kind |-> "event", type |-> t, delta |-> Undefined, arguments |-> Undefined,
     call_id |-> Undefined, tool_call_id |-> Undefined, id |-> Undefined,
     name |-> Undefined, function_name |-> Undefined, index |-> NoNum,
     item |-> NoItem, response |-> NoResponse,
     choices_content |-> Undefined, usage |-> NoEventUsage]

TextDeltaTypes == {"response.text.delta", "response.output_text.delta"}

ReasoningDeltaTypes ==
    {"response.reasoning.delta", "response.reasoning_text.delta",
     "response.reasoning_summary.delta", "response.reasoning_summary_text.delta"}

RefusalDeltaTypes == {"response.refusal.delta"}

ArgsDeltaTypes ==
    {"response.tool_call_arguments.delta", "response.function_call_arguments.delta"}

ArgsDoneTypes ==
    {"response.tool_call_arguments.done", "response.function_call_arguments.done"}

OutputItemTypes == {"response.output_item.added", "response.output_item.done"}

CompletedTypes == {"response.done", "response.completed"}

\* A function_call (or tool_call) output item.
FunctionCallItem(t, callId, name, args) ==
    [NoItem EXCEPT !.present = TRUE, !.type = t, !.call_id = callId,
                   !.name = name, !.arguments = args]

\* A message output item with one content part.
MessageItem(partType, text) ==
    [NoItem EXCEPT !.present = TRUE, !.type = "message",
                   !.content = <<[type |-> partType, text |-> text]>>]

ArgsDelta(t, callId, name, d) ==
    [Event(t) EXCEPT !.call_id = callId, !.name = name, !.delta = d]

OutputItem(t, item) == [Event(t) EXCEPT !.item = item]

Completed(t, i, o) ==
    [Event(t) EXCEPT !.response =
        [NoResponse EXCEPT !.present = TRUE, !.id = "resp1", !.usage_present = TRUE,
                           !.input_tokens = i, !.output_tokens = o]]

\* The events a Responses stream is drawn from.
ResponsesEvents ==
    { [Event("response.output_text.delta") EXCEPT !.delta = t] : t \in {"a", "b"} }
    \cup { [Event("response.reasoning.delta") EXCEPT !.delta = "r"],
           [Event("response.reasoning_summary_text.delta") EXCEPT !.delta = "s"],
           [Event("response.refusal.delta") EXCEPT !.delta = "a"] }
    \cup { ArgsDelta("response.function_call_arguments.delta", id, Undefined, d) :
             id \in {Undefined, "t1"}, d \in {"x", "y"} }
    \cup { ArgsDelta("response.tool_call_arguments.delta", "t2", "nameB", "x"),
           [Event("response.function_call_arguments.done") EXCEPT !.call_id = "t1"] }
    \cup { OutputItem("response.output_item.added", FunctionCallItem("function_call", id, n, Undefined)) :
             <<id, n>> \in {<<"t1", "nameA">>, <<"t2", "nameB">>, <<"t2", Undefined>>} }
    \cup { OutputItem("response.output_item.done", FunctionCallItem("function_call", "t1", "nameA", "x")),
           OutputItem("response.output_item.done", FunctionCallItem("tool_call", "t1", Undefined, "xy")),
           OutputItem("response.output_item.done", MessageItem("output_text", "a")),
           OutputItem("response.output_item.added", MessageItem("text", "ab")) }
    \cup { Completed("response.completed", 10, 5),
           Completed("response.done", NoNum, NoNum),
           Event("response.completed"),
           [Event("response.in_progress") EXCEPT !.usage =
               [NoEventUsage EXCEPT !.present = TRUE, !.prompt_tokens = 10,
                                    !.completion_tokens = 5]],
           [Event("response.created") EXCEPT !.choices_content = "b"] }
    \cup { OutputItem("response.output_item.done", FunctionCallItem("function_call", Undefined, "nameA", "x")),
           Event("response.queued"),
           [Event("response.queued") EXCEPT !.choices_content = "a", !.usage =
               [NoEventUsage EXCEPT !.present = TRUE, !.prompt_tokens = 10,
                                    !.completion_tokens = 5]] }

(* ---------------------------------------------------------------------- *)
(* processResponsesEvent                                                   *)
(* ---------------------------------------------------------------------- *)

\* item.call_id || item.tool_call_id || item.id
ItemCallId(item) == OrElse(item.call_id, OrElse(item.tool_call_id, item.id))

\* item.name || item.function?.name || item.function_name
ItemName(item) == OrElse(item.name, OrElse(item.fn_name, item.function_name))

\* item.arguments || item.function?.arguments || item.function_arguments
ItemArguments(item) ==
    OrElse(item.arguments, OrElse(item.fn_arguments, item.function_arguments))

IsToolItem(item) == item.present /\ item.type \in {"function_call", "tool_call"}

\* event.call_id || event.tool_call_id || event.id || this.pendingToolCallId || undefined
DeltaCallId(event, pid) ==
    OrElse(event.call_id,
           OrElse(event.tool_call_id, OrElse(event.id, OrElse(pid, Undefined))))

\* The name of a delta taken from the event alone.
DeltaNameOfEvent(event, pname) ==
    OrElse(event.name, OrElse(event.function_name, Undefined))

\* event.name || event.function_name || this.pendingToolCallName || undefined
DeltaName(event, pname) ==
    OrElse(event.name, OrElse(event.function_name, OrElse(pname, Undefined)))

\* typeof v === "string" && v.length > 0
NonEmptyString(v) == IsString(v) /\ v # ""

\* The arguments-delta branch: a partial only when both id and name resolve.
ArgsDeltaYields(event, pid, pname) ==
    IF NonEmptyString(DeltaName(event, pname)) /\ NonEmptyString(DeltaCallId(event, pid))
    THEN <<PartialEv(Coalesce(event.index, 0), DeltaCallId(event, pid),
                     DeltaName(event, pname), OrElse(event.delta, event.arguments))>>
    ELSE <<>>

\* for (const content of item.content) if text or output_text with text: yield
RECURSIVE MessageTexts(_)
MessageTexts(content) ==
    IF content = <<>> THEN <<>>
    ELSE (IF Head(content).type \in {"text", "output_text"} /\ Truthy(Head(content).text)
          THEN <<TextEv(Head(content).text)>> ELSE <<>>)
         \o MessageTexts(Tail(content))

\* The output_item branch without the test for response.output_item.done.
OutputItemYieldsOnAdded(event) ==
    LET item == event.item IN
    IF ~item.present THEN <<>>
    ELSE IF item.type = "text" /\ Truthy(item.text) THEN <<TextEv(item.text)>>
    ELSE IF item.type = "reasoning" /\ Truthy(item.text) THEN <<ReasoningEv(item.text)>>
    ELSE IF item.type = "message" THEN MessageTexts(item.content)
    ELSE IF IsToolItem(item) /\ Truthy(ItemCallId(item))
         THEN <<ToolCallEv(ItemCallId(item), OrElse(ItemName(item), ""),
                           IF IsString(ItemArguments(item)) THEN ItemArguments(item)
                           ELSE "{}")>>
    ELSE <<>>

\* The output_item.added / output_item.done branch: what it yields.
OutputItemYields(event) ==
    LET item == event.item IN
    IF ~item.present THEN <<>>
    ELSE IF item.type = "text" /\ Truthy(item.text) THEN <<TextEv(item.text)>>
    ELSE IF item.type = "reasoning" /\ Truthy(item.text) THEN <<ReasoningEv(item.text)>>
    ELSE IF item.type = "message" THEN MessageTexts(item.content)
    ELSE IF IsToolItem(item) /\ event.type = "response.output_item.done"
              /\ Truthy(ItemCallId(item))
         THEN <<ToolCallEv(ItemCallId(item), OrElse(ItemName(item), ""),
                           IF IsString(ItemArguments(item)) THEN ItemArguments(item)
                           ELSE "{}")>>
    ELSE <<>>

\* The same branch: does it overwrite the pending identity?
RecordsIdentity(event) ==
    /\ event.type \in OutputItemTypes
    /\ IsToolItem(event.item)
    /\ NonEmptyString(ItemCallId(event.item))

\* usage.input_tokens ?? usage.prompt_tokens ?? 0, and the same for output
UsageYield(u) ==
    <<UsageEv(Coalesce(u.input_tokens, Coalesce(u.prompt_tokens, 0)),
              Coalesce(u.output_tokens, Coalesce(u.completion_tokens, 0)))>>

\* A refusal delta passed on as it came.
PlainRefusalText(delta) == delta

\* `[Refusal] ${event.delta}`
RefusalText(delta) == "[Refusal] " \o delta

\* What processResponsesEvent yields for one event, by discriminator.
ResponsesYields(event, pid, pname) ==
    IF event.type \in TextDeltaTypes
    THEN (IF Truthy(event.delta) THEN <<TextEv(event.delta)>> ELSE <<>>)
    ELSE IF event.type \in ReasoningDeltaTypes
    THEN (IF Truthy(event.delta) THEN <<ReasoningEv(event.delta)>> ELSE <<>>)
    ELSE IF event.type \in RefusalDeltaTypes
    THEN (IF Truthy(event.delta) THEN <<TextEv(RefusalText(event.delta))>> ELSE <<>>)
    ELSE IF event.type \in ArgsDeltaTypes THEN ArgsDeltaYields(event, pid, pname)
    ELSE IF event.type \in ArgsDoneTypes THEN <<>>
    ELSE IF event.type \in OutputItemTypes THEN OutputItemYields(event)
    ELSE IF event.type \in CompletedTypes
    THEN (IF event.response.usage_present THEN UsageYield(event.response) ELSE <<>>)
    ELSE IF Truthy(event.choices_content) THEN <<TextEv(event.choices_content)>>
    ELSE IF event.usage.present THEN UsageYield(event.usage)
    ELSE <<>>

\* The pending call id dropped when the arguments of a tool call are done.
PendingIdUntilArgsDone(event, pid) ==
    IF RecordsIdentity(event) THEN ItemCallId(event.item)
    ELSE IF event.type \in ArgsDoneTypes THEN Undefined
    ELSE pid

\* this.pendingToolCallId after the event.
ResponsesPendingId(event, pid) ==
    IF RecordsIdentity(event) THEN ItemCallId(event.item) ELSE pid

\* this.pendingToolCallName after the event.
ResponsesPendingName(event, pname) ==
    IF RecordsIdentity(event)
    THEN (IF IsString(ItemName(event.item)) THEN ItemName(event.item) ELSE Undefined)
    ELSE pname

\* this.lastResponseId after the event.  (lastResponseOutput is captured the
\* same way and never read; it is left out of the state.)
ResponsesLastId(event, last) ==
    IF event.response.present /\ Truthy(event.response.id) THEN event.response.id ELSE last

(* ---------------------------------------------------------------------- *)
(* formatFullConversation                                                  *)
(* ---------------------------------------------------------------------- *)

\* s.map(F)
Map(s, F(_)) == [i \in 1..Len(s) |-> F(s[i])]

\* A content block with no field set.
NoBlock ==
    [type |-> Undefined, text |-> Undefined, source_type |-> Undefined,
     media_type |-> Undefined, data |-> Undefined, url |-> Undefined,
     tool_use_id |-> Undefined, content_is_string |-> FALSE, content |-> Undefined,
     content_parts |-> <<>>, id |-> Undefined, name |-> Undefined,
     input |-> Undefined]

TextBlock(t) == [NoBlock EXCEPT !.type = "text", !.text = t]

UrlImageBlock(u) == [NoBlock EXCEPT !.type = "image", !.source_type = "url", !.url = u]

Base64ImageBlock(mt, d) ==
    [NoBlock EXCEPT !.type = "image", !.source_type = "base64", !.media_type = mt,
                    !.data = d]

\* A tool result whose content is a string.
ToolResultBlock(id, r) ==
    [NoBlock EXCEPT !.type = "tool_result", !.tool_use_id = id,
                    !.content_is_string = TRUE, !.content = r]

\* A tool result whose content is an array of parts.
ToolResultPartsBlock(id, parts) ==
    [NoBlock EXCEPT !.type = "tool_result", !.tool_use_id = id, !.content_parts = parts]

ToolUseBlock(id, n, in) ==
    [NoBlock EXCEPT !.type = "tool_use", !.id = id, !.name = n, !.input = in]

\* A message whose content is a string.
StringMessage(role, t) ==
    [type |-> Undefined, role |-> role, content_is_string |-> TRUE, content |-> t,
     blocks |-> <<>>]

\* A message whose content is an array of blocks.
BlocksMessage(role, blocks) ==
    [type |-> Undefined, role |-> role, content_is_string |-> FALSE,
     content |-> Undefined, blocks |-> blocks]

\* A reasoning item kept in the conversation.
ReasoningMessage ==
    [type |-> "reasoning", role |-> Undefined, content_is_string |-> FALSE,
     content |-> Undefined, blocks |-> <<>>]

\* sanitizeOpenAiCallId(id): characters an id may not have are replaced.
SanitizeOpenAiCallId(id) == IF id = "c/2" THEN "c_2" ELSE id

\* JSON.stringify(block.input) for the inputs {q: "x"} and {q: "y"}.
JsonStringify(in) == "{\"q\":\"" \o in.q \o "\"}"

\* block.content?.map((c) => (c.type === "text" ? c.text : "")).join("")
RECURSIVE JoinTexts(_)
JoinTexts(parts) ==
    IF parts = <<>> THEN ""
    ELSE (IF Head(parts).type = "text" THEN Head(parts).text ELSE "")
         \o JoinTexts(Tail(parts))

\* The output of a tool result block.
ToolResultOutput(block) ==
    IF block.content_is_string THEN block.content
    ELSE OrElse(JoinTexts(block.content_parts), "")

\* The image_url of an image block.
ImageUrl(block) ==
    IF block.source_type = "base64"
    THEN "data:" \o block.media_type \o ";base64," \o block.data
    ELSE block.url

\* An input item with a role: { role, content }.
RoleItem(role, content) == [type |-> Undefined, role |-> role, content |-> content]

\* The content parts a user message gives: its text and image blocks.
UserContent(m) ==
    IF m.content_is_string THEN <<[type |-> "input_text", text |-> m.content]>>
    ELSE Map(SelectSeq(m.blocks, LAMBDA b : b.type \in {"text", "image"}),
             LAMBDA b : IF b.type = "text"
                        THEN [type |-> "input_text", text |-> b.text]
                        ELSE [type |-> "input_image", image_url |-> ImageUrl(b)])

\* The function_call_output items a user message gives: its tool results.
UserToolResults(m) ==
    IF m.content_is_string THEN <<>>
    ELSE Map(SelectSeq(m.blocks, LAMBDA b : b.type = "tool_result"),
             LAMBDA b : [type |-> "function_call_output", role |-> Undefined,
                         call_id |-> SanitizeOpenAiCallId(b.tool_use_id),
                         output |-> ToolResultOutput(b)])

\* The content parts an assistant message gives: its text blocks.
AssistantContent(m) ==
    IF m.content_is_string THEN <<[type |-> "output_text", text |-> m.content]>>
    ELSE Map(SelectSeq(m.blocks, LAMBDA b : b.type = "text"),
             LAMBDA b : [type |-> "output_text", text |-> b.text])

\* The function_call items an assistant message gives: its tool uses.
AssistantToolCalls(m) ==
    IF m.content_is_string THEN <<>>
    ELSE Map(SelectSeq(m.blocks, LAMBDA b : b.type = "tool_use"),
             LAMBDA b : [type |-> "function_call", role |-> Undefined,
                         call_id |-> SanitizeOpenAiCallId(b.id), name |-> b.name,
                         arguments |-> JsonStringify(b.input)])

\* The items one message of the conversation is pushed as.
MessageItems(m) ==
    IF m.type = "reasoning" THEN <<m>>
    ELSE IF m.role = "user"
    THEN (IF Len(UserContent(m)) > 0 THEN <<RoleItem("user", UserContent(m))>> ELSE <<>>)
         \o UserToolResults(m)
    ELSE IF m.role = "assistant"
    THEN (IF Len(AssistantContent(m)) > 0
          THEN <<RoleItem("assistant", AssistantContent(m))>> ELSE <<>>)
         \o AssistantToolCalls(m)
    ELSE <<>>

\* formatFullConversation(systemPrompt, messages)
RECURSIVE FormatFullConversation(_)
FormatFullConversation(messages) ==
    IF messages = <<>> THEN <<>>
    ELSE MessageItems(Head(messages)) \o FormatFullConversation(Tail(messages))

\* The messages conversations are made of.
ConversationMessages ==
    { StringMessage("user", "hello"),
      StringMessage("assistant", "hi"),
      StringMessage("system", "rules"),
      ReasoningMessage,
      BlocksMessage("user", <<TextBlock("a")>>),
      BlocksMessage("user", <<TextBlock("a"), ToolResultBlock("c1", "r1")>>),
      BlocksMessage("user", <<ToolResultBlock("c1", "r1"), TextBlock("a")>>),
      BlocksMessage("user", <<UrlImageBlock("http://img"), TextBlock("b"),
                              Base64ImageBlock("image/png", "AAAA")>>),
      BlocksMessage("user", <<ToolResultPartsBlock("c/2",
                                <<[type |-> "text", text |-> "r"],
                                  [type |-> "image", text |-> Undefined],
                                  [type |-> "text", text |-> "s"]>>)>>),
      BlocksMessage("assistant", <<TextBlock("b"), ToolUseBlock("c1", "lookup", [q |-> "x"])>>),
      BlocksMessage("assistant", <<ToolUseBlock("c1", "lookup", [q |-> "y"]), TextBlock("b")>>) }

\* The conversations of up to n messages.
Conversations(n) ==
    UNION { [1..k -> ConversationMessages] : k \in 0..n }

(* ---------------------------------------------------------------------- *)
(* Request payloads                                                        *)
(* ---------------------------------------------------------------------- *)

\* modelInfo.apiType === "responses" || supportedApiTypes.includes("RESPONSES")
PrefersResponses(info) ==
    info.apiType = "responses" \/ "RESPONSES" \in info.supportedApiTypes

\* a ?? b on string-or-undefined values
CoalesceString(a, b) == IF a # Undefined THEN a ELSE b

\* A tool of metadata.tools.
Tool(type, name, parameters) ==
    [type |-> type, name |-> name, description |-> "d", parameters |-> parameters]

\* The names isMcpTool recognizes: those with the MCP prefix.
McpToolNames == {"mcp--srv--search"}

\* isMcpTool(tool.function.name)
IsMcpTool(name) == name \in McpToolNames

InternalTool == Tool("function", "read_file", "schemaA")

McpTool == Tool("function", "mcp--srv--search", "schemaB")

CustomTool == Tool("custom", "grep", "schemaC")

\* metadata.tools is absent.
NoTools == [present |-> FALSE, list |-> <<>>]

Tools(list) == [present |-> TRUE, list |-> list]

\* An optional array field of a payload that is absent.
Absent == [present |-> FALSE, list |-> <<>>]

\* Every tool is marked strict.
AlwaysStrict(isMcp) == TRUE

\* strict: !isMcp
ToolStrict(isMcp) == ~isMcp

\* One entry of the tools array of a Responses request.
ResponsesTool(tool) ==
    [type |-> "function", name |-> tool.name, description |-> tool.description,
     parameters |->
        [via |-> IF IsMcpTool(tool.name)
                 THEN "normalizeObjectAdditionalPropertiesFalse"
                 ELSE "convertToolSchemaForOpenAI",
         schema |-> tool.parameters],
     strict |-> ToolStrict(IsMcpTool(tool.name))]

\* metadata.tools.filter((tool) => tool.type === "function").map(...)
ResponsesTools(list) ==
    Map(SelectSeq(list, LAMBDA tool : tool.type = "function"), ResponsesTool)

\* this.convertToolsForOpenAI(metadata.tools)
ConvertToolsForOpenAI(list) ==
    Map(list, LAMBDA tool : [via |-> "convertToolsForOpenAI", tool |-> tool])

\* The user setting, else the model default; nothing when unset or "disable".
GetReasoningEffort(options, info) ==
    LET selected == CoalesceString(options.reasoningEffort, info.reasoningEffort)
    IN IF Truthy(selected) /\ selected # "disable" THEN selected ELSE Undefined

\* The reasoning block of a payload that has none.
NoReasoning == [present |-> FALSE, effort |-> Undefined, summary |-> Undefined]

\* buildResponsesRequestBody
BuildResponsesRequestBody(modelId, info, formattedInput, systemPrompt, reasoningEffort, metadata, options) ==
    [protocol |-> "responses",
     model |-> modelId,
     input |-> formattedInput,
     stream |-> TRUE,
     store |-> FALSE,
     instructions |-> systemPrompt,
     include |-> IF Truthy(reasoningEffort)
                 THEN [present |-> TRUE, list |-> <<"reasoning.encrypted_content">>]
                 ELSE Absent,
     reasoning |-> IF Truthy(reasoningEffort)
                   THEN [present |-> TRUE, effort |-> reasoningEffort,
                         summary |-> IF options.enableResponsesReasoningSummary
                                     THEN "auto" ELSE Undefined]
                   ELSE NoReasoning,
     temperature |-> IF info.supportsTemperature /\ options.modelTemperature # NoNum
                     THEN options.modelTemperature ELSE NoNum,
     max_output_tokens |-> IF info.maxTokens # 0 /\ options.includeMaxTokens
                           THEN info.maxTokens ELSE NoNum,
     tools |-> IF metadata.tools.present
               THEN Tools(ResponsesTools(metadata.tools.list)) ELSE Absent,
     tool_choice |-> IF Truthy(metadata.tool_choice) THEN metadata.tool_choice
                     ELSE Undefined,
     has_parallel_tool_calls |-> metadata.toolProtocol = "native",
     parallel_tool_calls |-> metadata.toolProtocol = "native"
                             /\ metadata.parallelToolCalls]

\* supportsNativeTools && tools && tools.length > 0 && toolProtocol !== "xml"
\* && tool_choice !== "none"
UseNativeTools(info, metadata) ==
    /\ info.supportsNativeTools
    /\ metadata.tools.present
    /\ Len(metadata.tools.list) > 0
    /\ metadata.toolProtocol # "xml"
    /\ metadata.tool_choice # "none"

\* The requested tool choice whatever it is.
RequestedToolChoice(useNativeTools, requestedToolChoice) == requestedToolChoice

\* finalToolChoice
FinalToolChoice(useNativeTools, requestedToolChoice) ==
    IF useNativeTools /\ (~Truthy(requestedToolChoice) \/ requestedToolChoice = "auto")
    THEN "required"
    ELSE requestedToolChoice

\* The chat request of createMessage.
ChatRequest(info, metadata, options, systemPrompt, messages) ==
    LET useNativeTools == UseNativeTools(info, metadata)
        finalToolChoice == FinalToolChoice(useNativeTools, metadata.tool_choice)
    IN [protocol |-> "chat",
        model |-> OrElse(options.apiModelId, "auto"),
        messages |-> [system |-> systemPrompt, via |-> "convertToOpenAiMessages",
                      messages |-> messages],
        max_tokens |-> IF info.maxTokens # 0 THEN info.maxTokens ELSE NoNum,
        temperature |-> Coalesce(options.modelTemperature, 0),
        stream |-> TRUE,
        include_usage |-> TRUE,
        tools |-> IF useNativeTools
                  THEN Tools(ConvertToolsForOpenAI(metadata.tools.list)) ELSE Absent,
        tool_choice |-> IF Truthy(finalToolChoice) THEN finalToolChoice ELSE Undefined,
        has_parallel_tool_calls |-> useNativeTools,
        parallel_tool_calls |-> useNativeTools /\ metadata.parallelToolCalls]

\* The request createMessage builds: over the Responses protocol when the
\* capability record prefers it, over the chat protocol otherwise.
CreateMessageRequest(info, metadata, options, systemPrompt, messages) ==
    IF PrefersResponses(info)
    THEN BuildResponsesRequestBody(OrElse(options.apiModelId, "auto"), info,
             FormatFullConversation(messages), systemPrompt,
             GetReasoningEffort(options, info), metadata, options)
    ELSE ChatRequest(info, metadata, options, systemPrompt, messages)

\* info.apiType === "CHAT_COMPLETIONS" selects the chat request of completePrompt.
CompletionProtocol(info) ==
    IF info.apiType = "CHAT_COMPLETIONS" THEN "chat" ELSE "responses"

\* The request completePrompt builds, without its temperature and
\* prompt_cache_retention fields.
CompletePromptRequest(info, options, prompt) ==
    IF CompletionProtocol(info) = "chat"
    THEN [protocol |-> "chat",
          model |-> OrElse(options.apiModelId, "auto"),
          messages |-> <<[role |-> "user", content |-> prompt]>>]
    ELSE LET reasoningEffort == GetReasoningEffort(options, info)
         IN [protocol |-> "responses",
             model |-> OrElse(options.apiModelId, "auto"),
             input |-> <<RoleItem("user", <<[type |-> "input_text", text |-> prompt]>>)>>,
             stream |-> FALSE,
             store |-> FALSE,
             include |-> IF Truthy(reasoningEffort)
                         THEN [present |-> TRUE,
                               list |-> <<"reasoning.encrypted_content">>]
                         ELSE Absent,
             reasoning |-> IF Truthy(reasoningEffort)
                           THEN [present |-> TRUE, effort |-> reasoningEffort,
                                 summary |-> IF options.enableResponsesReasoningSummary
                                             THEN "auto" ELSE Undefined]
                           ELSE NoReasoning,
             max_output_tokens |-> IF info.maxTokens # 0 THEN info.maxTokens
                                   ELSE NoNum]

\* What requests are built from: capability records and call metadata that
\* differ in protocol, tools and tool choice, under the default options.
ToolInputs ==
    [info : [apiType : {Undefined, "responses", "CHAT_COMPLETIONS"},
             supportedApiTypes : {{}, {"RESPONSES"}, {"CHAT_COMPLETIONS"}},
             supportsNativeTools : BOOLEAN,
             supportsReasoningEffort : {TRUE},
             reasoningEffort : {Undefined},
             maxTokens : {4096},
             supportsTemperature : {TRUE}],
     metadata : [tools : {NoTools, Tools(<<>>), Tools(<<InternalTool>>),
                          Tools(<<McpTool, InternalTool>>),
                          Tools(<<CustomTool, InternalTool>>)},
                 toolProtocol : {Undefined, "xml", "native"},
                 tool_choice : {Undefined, "auto", "required", "none",
                                "function:read_file"},
                 parallelToolCalls : BOOLEAN],
     options : [apiModelId : {"m1"},
                reasoningEffort : {Undefined},
                enableResponsesReasoningSummary : {FALSE},
                includeMaxTokens : {FALSE},
                modelTemperature : {NoNum}]]

\* The same, differing in reasoning effort, token limit and temperature,
\* over the Responses protocol.
ReasoningInputs ==
    [info : [apiType : {"responses"},
             supportedApiTypes : {{}},
             supportsNativeTools : {TRUE},
             supportsReasoningEffort : BOOLEAN,
             reasoningEffort : {Undefined, "disable", "medium"},
             maxTokens : {0, 4096},
             supportsTemperature : {TRUE}],
     metadata : [tools : {NoTools, Tools(<<McpTool, InternalTool>>),
                          Tools(<<CustomTool, InternalTool>>)},
                 toolProtocol : {Undefined},
                 tool_choice : {Undefined},
                 parallelToolCalls : {FALSE}],
     options : [apiModelId : {"m1"},
                reasoningEffort : {Undefined, "disable", "low"},
                enableResponsesReasoningSummary : BOOLEAN,
                includeMaxTokens : BOOLEAN,
                modelTemperature : {NoNum, 1}]]

(* ---------------------------------------------------------------------- *)
(* Credentials and errors                                                  *)
(* ---------------------------------------------------------------------- *)

\* OcaTokenManager.getValid() returned nothing.
NoToken == [present |-> FALSE, access_token |-> Undefined]

\* What OcaTokenManager.getValid() may return.
Tokens ==
    { NoToken }
    \cup { [present |-> TRUE, access_token |-> a] : a \in {Undefined, "", "tok"} }

\* A token is accepted whenever there is one.
TokenPresent(tk) == tk.present

\* !token?.access_token is false
HasAccessToken(tk) == tk.present /\ Truthy(tk.access_token)

\* The error getClientWithBase throws.
SignInError ==
    [object |-> "sign-in", has_message |-> TRUE,
     message |-> "Please sign in with Oracle SSO at Settings > Providers > Oracle Code Assist.",
     status |-> NoNum]

\* The shapes of error.headers: absent; an object without a get function
\* (holding the id all the same); an object whose get("opc-request-id")
\* returns null, the empty string or an id.
HeaderShapes ==
    { <<"absent", Undefined>>, <<"plain", "req-1">>, <<"get", Undefined>>,
      <<"get", "">>, <<"get", "req-1">>, <<"get", "req-2">> }

\* The errors the client raises, on opening a request or while the stream is
\* iterated.
RawErrors ==
    { [object |-> "raw", message |-> "boom", status |-> st,
       headers |-> h[1], opc_request_id |-> h[2]] :
         st \in {429, 500}, h \in HeaderShapes }

\* typeof error?.headers?.get === "function" ? error.headers.get("opc-request-id") : null
OpcRequestId(error) ==
    IF error.headers = "get" THEN error.opc_request_id ELSE Undefined

\* handleOpenAIError(err, providerName): a new error object for the raw one.
HandleOpenAIError(err, providerName) ==
    [object |-> "translated", has_message |-> TRUE,
     message |-> providerName \o " completion error: " \o err.message,
     status |-> err.status]

\* A decorator that builds a new error around the decorated message.
DecorateAsNewError(error, processedError) ==
    IF Truthy(OpcRequestId(error)) /\ processedError.has_message
    THEN [object |-> "decorated", has_message |-> TRUE,
          message |-> processedError.message \o " opc-request-id: " \o OpcRequestId(error),
          status |-> NoNum]
    ELSE processedError

\* decorateErrorWithOpcRequestId: the message of processedError is extended in
\* place when the raw error yields an id.
DecorateErrorWithOpcRequestId(error, processedError) ==
    IF Truthy(OpcRequestId(error)) /\ processedError.has_message
    THEN [processedError EXCEPT
            !.message = @ \o " opc-request-id: " \o OpcRequestId(error)]
    ELSE processedError

\* No failure so far.
NoFailure == [at |-> "none"]

\* The invocation failed at the given point with the raw error e; err is
\* what the caller gets.
Failure(at, e, err) == [at |-> at, raw |-> e, error |-> err]

\* The decorator has not been called on its own.
NoDecoration == [state |-> "none"]

\* No request is being built on its own.
NoRequest == [state |-> "none"]

\* The translated errors the decorator is given: with a message, possibly
\* empty, or an object without a message property.
ProcessedErrors ==
    { [object |-> "translated", has_message |-> TRUE, message |-> m, status |-> st] :
         m \in {"failed", ""}, st \in {429, 500} }
    \cup { [object |-> "translated", has_message |-> FALSE, message |-> Undefined,
             status |-> st] : st \in {429, 500} }

(* ---------------------------------------------------------------------- *)
(* completePrompt responses                                                *)
(* ---------------------------------------------------------------------- *)

\* The answers to the chat request of completePrompt, as far as it reads
\* them: choices[0].message.content.
ChatCompletions == { [content |-> t] : t \in {Undefined, "", "a"} }

\* The answers to the non-streaming Responses request: output items and text.
\* The last output is one message item with two output_text parts.
ResponsesCompletions ==
    { [output |-> o, text |-> t] :
        o \in { <<>>,
                <<MessageItem("output_text", "a")>>,
                <<MessageItem("text", "a")>>,
                <<FunctionCallItem("function_call", "t1", "nameA", "x"),
                  MessageItem("output_text", "b")>>,
                <<MessageItem("output_text", ""), MessageItem("output_text", "b"),
                  MessageItem("output_text", "a")>>,
                <<[MessageItem("output_text", "a") EXCEPT
                      !.content = @ \o <<[type |-> "output_text", text |-> "b"]>>]>> },
        t \in {Undefined, "ab"} }

\* for (const content of outputItem.content): the first output_text part with text
RECURSIVE FirstOutputText(_)
FirstOutputText(content) ==
    IF content = <<>> THEN Undefined
    ELSE IF Head(content).type = "output_text" /\ Truthy(Head(content).text)
    THEN Head(content).text
    ELSE FirstOutputText(Tail(content))

\* for (const outputItem of response.output): the first text a message item gives
RECURSIVE ResponseOutputText(_)
ResponseOutputText(output) ==
    IF output = <<>> THEN Undefined
    ELSE IF Head(output).type = "message"
            /\ FirstOutputText(Head(output).content) # Undefined
    THEN FirstOutputText(Head(output).content)
    ELSE ResponseOutputText(Tail(output))

\* What completePrompt returns for a Responses answer.
ResponsesCompletionText(response) ==
    IF ResponseOutputText(response.output) # Undefined
    THEN ResponseOutputText(response.output)
    ELSE IF Truthy(response.text) THEN response.text
    ELSE ""

\* resp.choices?.[0]?.message?.content || ""
ChatCompletionText(resp) == OrElse(resp.content, "")

(* ---------------------------------------------------------------------- *)
(* createMessage                                                           *)
(* ---------------------------------------------------------------------- *)

\* The capability records getModel() may return, as far as the branch reads them.
ModelInfos ==
    [apiType : {Undefined, "responses", "CHAT_COMPLETIONS"},
     supportedApiTypes : {{}, {"RESPONSES"}, {"CHAT_COMPLETIONS"}}]

\* The events the consumer has received after the generator yields evs.
YieldFirst(o, evs) == evs \o o

Yield(o, evs) == o \o evs

\* The origin annotation of n events produced from raw event number k.
From(k, n) == [i \in 1..n |-> k]

\* createMessage is called with a valid token: the protocol is chosen from the
\* capability record, on the Responses path the handler's per-call fields are
\* reset, and the one request is issued and answered with a stream.
Start(c, infos) ==
    /\ pc[c] = "idle"
    /\ \E tk \in Tokens :
         /\ HasAccessToken(tk)
         /\ token' = [token EXCEPT ![c] = tk]
    /\ op' = [op EXCEPT ![c] = "createMessage"]
    /\ requests' = [requests EXCEPT ![c] = @ + 1]
    /\ \E info \in infos :
         /\ protocol' = [protocol EXCEPT ![c] =
                IF PrefersResponses(info) THEN "responses" ELSE "chat"]
         /\ IF PrefersResponses(info)
            THEN /\ lastResponseId' = Undefined
                 /\ pendingToolCallId' = Undefined
                 /\ pendingToolCallName' = Undefined
                 /\ UNCHANGED toolCallIdentityById
            ELSE UNCHANGED handlerFields
    /\ pc' = [pc EXCEPT ![c] = "streaming"]
    /\ UNCHANGED <<outside, sent, out, origin, consumer, activeToolCallIds, failure, result, decoration,
                   request>>

\* One iteration of the chat loop: the next chunk is taken and everything the
\* loop body yields for it is delivered.  The finish reasons of ChatChunks are
\* ones verifyFinishReason lets pass.
ChatChunkOf(c, chunks, max) ==
    /\ pc[c] = "streaming"
    /\ protocol[c] = "chat"
    /\ Len(sent[c]) < max
    /\ \E chunk \in chunks :
         LET ys == ChatChunkYields(chunk, activeToolCallIds[c]) IN
         /\ sent' = [sent EXCEPT ![c] = Append(@, chunk)]
         /\ out' = [out EXCEPT ![c] = Yield(@, ys)]
         /\ origin' = [origin EXCEPT ![c] = @ \o From(Len(sent[c]) + 1, Len(ys))]
         /\ activeToolCallIds' = [activeToolCallIds EXCEPT ![c] =
                ChatChunkActive(chunk, @)]
    /\ UNCHANGED <<outside, pc, protocol, handlerFields, outcome, consumer>>

\* The same over the chunks of ChatChunks.
ChatChunk(c) == ChatChunkOf(c, ChatChunks, MaxEvents)

\* The chat stream ends: the flush after the loop, then the generator returns.
ChatEnd(c) ==
    /\ pc[c] = "streaming"
    /\ protocol[c] = "chat"
    /\ LET ys == FlushEnds(activeToolCallIds[c]) IN
         /\ out' = [out EXCEPT ![c] = Yield(@, ys)]
         /\ origin' = [origin EXCEPT ![c] = @ \o From(Len(sent[c]) + 1, Len(ys))]
    /\ activeToolCallIds' = [activeToolCallIds EXCEPT ![c] = <<>>]
    /\ pc' = [pc EXCEPT ![c] = "done"]
    /\ UNCHANGED <<outside, protocol, sent, handlerFields, outcome, consumer>>

\* One iteration of the Responses loop: the next event goes through
\* processResponsesEvent and its chunks are delivered.
ResponsesEvent(c, events, max) ==
    /\ pc[c] = "streaming"
    /\ protocol[c] = "responses"
    /\ Len(sent[c]) < max
    /\ \E event \in events :
         LET ys == ResponsesYields(event, pendingToolCallId, pendingToolCallName) IN
         /\ sent' = [sent EXCEPT ![c] = Append(@, event)]
         /\ out' = [out EXCEPT ![c] = Yield(@, ys)]
         /\ origin' = [origin EXCEPT ![c] = @ \o From(Len(sent[c]) + 1, Len(ys))]
         /\ pendingToolCallId' = ResponsesPendingId(event, pendingToolCallId)
         /\ pendingToolCallName' = ResponsesPendingName(event, pendingToolCallName)
         /\ UNCHANGED toolCallIdentityById
         /\ lastResponseId' = ResponsesLastId(event, lastResponseId)
    /\ UNCHANGED <<outside, pc, protocol, activeToolCallIds, outcome, consumer>>

\* The Responses stream ends: the generator returns.
ResponsesEnd(c) ==
    /\ pc[c] = "streaming"
    /\ protocol[c] = "responses"
    /\ pc' = [pc EXCEPT ![c] = "done"]
    /\ UNCHANGED <<outside, protocol, sent, out, origin, consumer, activeToolCallIds, handlerFields,
                   outcome>>

\* After construction: no invocation yet, no pending identity.
InitCalls ==
    /\ pendingToolCallId = Undefined
    /\ pendingToolCallName = Undefined
    /\ lastResponseId = Undefined
    /\ pc = [c \in Calls |-> "idle"]
    /\ protocol = [c \in Calls |-> "none"]
    /\ sent = [c \in Calls |-> <<>>]
    /\ out = [c \in Calls |-> <<>>]
    /\ origin = [c \in Calls |-> <<>>]
    /\ activeToolCallIds = [c \in Calls |-> <<>>]
    /\ op = [c \in Calls |-> "none"]
    /\ token = [c \in Calls |-> NoToken]
    /\ requests = [c \in Calls |-> 0]
    /\ failure = [c \in Calls |-> NoFailure]
    /\ result = [c \in Calls |-> Undefined]
    /\ pulling = [c \in Calls |-> FALSE]
    /\ pending = [c \in Calls |-> <<>>]
    /\ toolCallIdentityById = {}
    /\ downloader = NotCalled
    /\ setup = NotCalled
    /\ selector = NotCalled

Init ==
    /\ InitCalls
    /\ decoration = NoDecoration
    /\ request = NoRequest

\* One invocation, over either protocol.
Next ==
    \/ Start(1, ModelInfos)
    \/ ChatChunk(1)
    \/ ChatEnd(1)
    \/ ResponsesEvent(1, ResponsesEvents, MaxEvents)
    \/ ResponsesEnd(1)

Spec == Init /\ [][Next]_vars

\* The events two concurrent Responses streams are drawn from.
ConcEvents ==
    { OutputItem("response.output_item.added", FunctionCallItem("function_call", "t1", "nameA", Undefined)),
      OutputItem("response.output_item.added", FunctionCallItem("function_call", "t2", "nameB", Undefined)),
      ArgsDelta("response.function_call_arguments.delta", Undefined, Undefined, "x"),
      Completed("response.completed", 10, 5) }

\* The capability records that select the Responses protocol.
ResponsesInfos == {info \in ModelInfos : PrefersResponses(info)}

\* Two invocations on the same handler over the Responses protocol, their
\* loop iterations interleaved.
NextConc ==
    \E c \in Calls :
        \/ Start(c, ResponsesInfos)
        \/ ResponsesEvent(c, ConcEvents, MaxConcEvents)
        \/ ResponsesEnd(c)

SpecConc == Init /\ [][NextConc]_vars

\* The stream of the chat scenario.
ScenarioStream ==
    << [EmptyChunk EXCEPT !.content = "Hi"],
       [EmptyChunk EXCEPT !.tool_calls = <<ToolCallDelta(0, "c1", "lookup", "{\"q\":")>>],
       [EmptyChunk EXCEPT !.tool_calls = <<ToolCallDelta(0, "c1", Undefined, "\"x\"}")>>],
       [EmptyChunk EXCEPT !.finish_reason = "tool_calls"],
       [EmptyChunk EXCEPT !.usage = ChatUsageOf(10, 5)] >>

\* The chunks of the chat scenario.
ScenarioChunks == Range(ScenarioStream)

\* The capability records that select the chat protocol.
ChatInfos == {info \in ModelInfos : ~PrefersResponses(info)}

\* One invocation over the chat protocol, its stream drawn from the chunks of
\* the scenario.
NextScenario ==
    \/ Start(1, ChatInfos)
    \/ ChatChunkOf(1, ScenarioChunks, MaxScenarioChunks)
    \/ ChatEnd(1)

SpecScenario == Init /\ [][NextScenario]_vars

(* ---------------------------------------------------------------------- *)
(* Failures and completePrompt                                             *)
(* ---------------------------------------------------------------------- *)

\* createMessage or completePrompt is called and getClientWithBase throws:
\* there is no token, or its access_token is empty.
GetClientFails(c) ==
    /\ pc[c] = "idle"
    /\ \E tk \in Tokens :
         /\ ~HasAccessToken(tk)
         /\ token' = [token EXCEPT ![c] = tk]
    /\ \E o \in {"createMessage", "completePrompt"} : op' = [op EXCEPT ![c] = o]
    /\ failure' = [failure EXCEPT ![c] = Failure("auth", SignInError, SignInError)]
    /\ pc' = [pc EXCEPT ![c] = "failed"]
    /\ UNCHANGED <<outside, protocol, sent, out, origin, consumer, activeToolCallIds, handlerFields,
                   requests, result, decoration,
                   request>>

\* createMessage whose failed Responses request is followed by a chat request.
OpenFailsFallsBack(c, infos) ==
    /\ pc[c] = "idle"
    /\ \E tk \in Tokens :
         /\ HasAccessToken(tk)
         /\ token' = [token EXCEPT ![c] = tk]
    /\ op' = [op EXCEPT ![c] = "createMessage"]
    /\ \E info \in infos : \E e \in RawErrors :
         IF PrefersResponses(info)
         THEN /\ lastResponseId' = Undefined
              /\ pendingToolCallId' = Undefined
              /\ pendingToolCallName' = Undefined
              /\ UNCHANGED toolCallIdentityById
              /\ protocol' = [protocol EXCEPT ![c] = "chat"]
              /\ requests' = [requests EXCEPT ![c] = @ + 2]
              /\ pc' = [pc EXCEPT ![c] = "streaming"]
              /\ UNCHANGED failure
         ELSE /\ UNCHANGED handlerFields
              /\ protocol' = [protocol EXCEPT ![c] = "chat"]
              /\ requests' = [requests EXCEPT ![c] = @ + 1]
              /\ pc' = [pc EXCEPT ![c] = "failed"]
              /\ failure' = [failure EXCEPT ![c] =
                     Failure("open", e, DecorateErrorWithOpcRequestId(e,
                         HandleOpenAIError(e, "Oracle Code Assist")))]
    /\ UNCHANGED <<outside, sent, out, origin, consumer, activeToolCallIds, result, decoration,
                   request>>

\* createMessage is called with a valid token and the one request it issues
\* is answered with an error: the Responses catch translates it, the chat
\* catch translates and decorates it.
OpenFails(c, infos) ==
    /\ pc[c] = "idle"
    /\ \E tk \in Tokens :
         /\ HasAccessToken(tk)
         /\ token' = [token EXCEPT ![c] = tk]
    /\ op' = [op EXCEPT ![c] = "createMessage"]
    /\ requests' = [requests EXCEPT ![c] = @ + 1]
    /\ \E info \in infos : \E e \in RawErrors :
         IF PrefersResponses(info)
         THEN /\ lastResponseId' = Undefined
              /\ pendingToolCallId' = Undefined
              /\ pendingToolCallName' = Undefined
              /\ UNCHANGED toolCallIdentityById
              /\ protocol' = [protocol EXCEPT ![c] = "responses"]
              /\ failure' = [failure EXCEPT ![c] =
                     Failure("open", e,
                         HandleOpenAIError(e, "Oracle Code Assist (Responses API)"))]
         ELSE /\ UNCHANGED handlerFields
              /\ protocol' = [protocol EXCEPT ![c] = "chat"]
              /\ failure' = [failure EXCEPT ![c] =
                     Failure("open", e, DecorateErrorWithOpcRequestId(e,
                         HandleOpenAIError(e, "Oracle Code Assist")))]
    /\ pc' = [pc EXCEPT ![c] = "failed"]
    /\ UNCHANGED <<outside, sent, out, origin, consumer, activeToolCallIds, result, decoration,
                   request>>

\* The stream raises an error while it is iterated.  The Responses loop is
\* inside the try and the error is translated; the chat loop is outside any
\* try and the raw error reaches the caller, the flush after the loop skipped.
StreamFails(c) ==
    /\ pc[c] = "streaming"
    /\ \E e \in RawErrors :
         failure' = [failure EXCEPT ![c] =
            Failure("stream", e,
                IF protocol[c] = "responses"
                THEN HandleOpenAIError(e, "Oracle Code Assist (Responses API)")
                ELSE e)]
    /\ pc' = [pc EXCEPT ![c] = "failed"]
    /\ UNCHANGED <<outside, protocol, sent, out, origin, consumer, activeToolCallIds, handlerFields,
                   op, token, requests, result, decoration,
                   request>>

\* completePrompt is called with a valid token, issues its one request and
\* returns the text of the answer.
CompletePromptReturns(c, infos) ==
    /\ pc[c] = "idle"
    /\ \E tk \in Tokens :
         /\ HasAccessToken(tk)
         /\ token' = [token EXCEPT ![c] = tk]
    /\ op' = [op EXCEPT ![c] = "completePrompt"]
    /\ requests' = [requests EXCEPT ![c] = @ + 1]
    /\ \E info \in infos :
         /\ protocol' = [protocol EXCEPT ![c] = CompletionProtocol(info)]
         /\ IF CompletionProtocol(info) = "chat"
            THEN \E resp \in ChatCompletions :
                    /\ result' = [result EXCEPT ![c] = ChatCompletionText(resp)]
                    /\ request' = [state |-> "answered", op |-> "completePrompt",
                                   response |-> resp]
            ELSE \E response \in ResponsesCompletions :
                    /\ result' = [result EXCEPT ![c] = ResponsesCompletionText(response)]
                    /\ request' = [state |-> "answered", op |-> "completePrompt",
                                   response |-> response]
    /\ pc' = [pc EXCEPT ![c] = "done"]
    /\ UNCHANGED <<outside, sent, out, origin, consumer, activeToolCallIds, handlerFields, failure,
                   decoration>>

\* completePrompt is called with a valid token and its request fails: the
\* catch around both branches translates and decorates the error.
CompletePromptFails(c, infos) ==
    /\ pc[c] = "idle"
    /\ \E tk \in Tokens :
         /\ HasAccessToken(tk)
         /\ token' = [token EXCEPT ![c] = tk]
    /\ op' = [op EXCEPT ![c] = "completePrompt"]
    /\ requests' = [requests EXCEPT ![c] = @ + 1]
    /\ \E info \in infos : \E e \in RawErrors :
         /\ protocol' = [protocol EXCEPT ![c] = CompletionProtocol(info)]
         /\ failure' = [failure EXCEPT ![c] =
                Failure("open", e, DecorateErrorWithOpcRequestId(e,
                    HandleOpenAIError(e, "Oracle Code Assist")))]
    /\ pc' = [pc EXCEPT ![c] = "failed"]
    /\ UNCHANGED <<outside, sent, out, origin, consumer, activeToolCallIds, handlerFields, result,
                   decoration,
                   request>>

\* The chunks and events of the streams that may fail.
ErrChunks ==
    { [EmptyChunk EXCEPT !.content = "a"],
      [EmptyChunk EXCEPT !.tool_calls = <<FirstC1>>],
      [EmptyChunk EXCEPT !.finish_reason = "tool_calls"] }

ErrEvents ==
    { [Event("response.output_text.delta") EXCEPT !.delta = "a"],
      OutputItem("response.output_item.added", FunctionCallItem("function_call", "t1", "nameA", Undefined)),
      Completed("response.completed", 10, 5) }

\* One invocation of createMessage or completePrompt, with every way it can
\* fail.
NextErr ==
    \/ GetClientFails(1)
    \/ Start(1, ModelInfos)
    \/ OpenFails(1, ModelInfos)
    \/ ChatChunkOf(1, ErrChunks, MaxErrEvents)
    \/ ChatEnd(1)
    \/ ResponsesEvent(1, ErrEvents, MaxErrEvents)
    \/ ResponsesEnd(1)
    \/ StreamFails(1)
    \/ CompletePromptReturns(1, ModelInfos)
    \/ CompletePromptFails(1, ModelInfos)

SpecErr == Init /\ [][NextErr]_vars

\* decorateErrorWithOpcRequestId is called on its own, on any raw error and
\* any translated error.
InitDecorate ==
    /\ InitCalls
    /\ decoration \in [state : {"called"}, error : RawErrors,
                        processedError : ProcessedErrors]
    /\ request = NoRequest

\* The decorator returns.
Decorate ==
    /\ decoration.state = "called"
    /\ decoration' =
          [state |-> "returned", error |-> decoration.error,
           processedError |-> decoration.processedError,
           result |-> DecorateErrorWithOpcRequestId(decoration.error,
                                                    decoration.processedError)]
    /\ UNCHANGED <<outside, pc, protocol, sent, out, origin, consumer, activeToolCallIds,
                   handlerFields, op, token, requests, failure, result, request>>

NextDecorate == Decorate

SpecDecorate == InitDecorate /\ [][NextDecorate]_vars

\* Every text, reasoning and refusal delta, with a delta that is absent,
\* empty or not, and an output item that records an identity.
DeltaEvents ==
    { [Event(t) EXCEPT !.delta = d] :
        t \in TextDeltaTypes \cup ReasoningDeltaTypes \cup RefusalDeltaTypes,
        d \in {Undefined, "", "a"} }
    \cup { OutputItem("response.output_item.added",
                      FunctionCallItem("function_call", "t1", "nameA", Undefined)) }

\* One invocation over the Responses protocol, its stream drawn from the
\* delta events.
NextDeltas ==
    \/ Start(1, ResponsesInfos)
    \/ ResponsesEvent(1, DeltaEvents, MaxDeltaEvents)
    \/ ResponsesEnd(1)

SpecDeltas == Init /\ [][NextDeltas]_vars

(* ---------------------------------------------------------------------- *)
(* Requests built on their own                                             *)
(* ---------------------------------------------------------------------- *)

\* formatFullConversation is called on a conversation.
InitFormat ==
    /\ InitCalls
    /\ decoration = NoDecoration
    /\ request \in [state : {"called"}, op : {"formatFullConversation"},
                     messages : Conversations(MaxMessages)]

\* formatFullConversation returns the input items.
Format ==
    /\ request.state = "called"
    /\ request.op = "formatFullConversation"
    /\ request' = [state |-> "returned", op |-> request.op,
                   messages |-> request.messages,
                   input |-> FormatFullConversation(request.messages)]
    /\ UNCHANGED <<outside, pc, protocol, sent, out, origin, consumer, activeToolCallIds,
                   handlerFields, op, token, requests, failure, result, decoration>>

NextFormat == Format

SpecFormat == InitFormat /\ [][NextFormat]_vars

\* createMessage or completePrompt is about to build its request.
InitRequest ==
    /\ InitCalls
    /\ decoration = NoDecoration
    /\ \E o \in {"createMessage", "completePrompt"} :
       \E in \in ToolInputs \cup ReasoningInputs :
          request = [state |-> "called", op |-> o, info |-> in.info,
                     metadata |-> in.metadata, options |-> in.options,
                     systemPrompt |-> "sys",
                     messages |-> <<StringMessage("user", "hello")>>]

\* createMessage has built the payload it sends.
BuildCreateMessageRequest ==
    /\ request.state = "called"
    /\ request.op = "createMessage"
    /\ request' = [request EXCEPT !.state = "built"]
                    @@ [body |-> CreateMessageRequest(request.info, request.metadata,
                                     request.options, request.systemPrompt,
                                     request.messages)]
    /\ UNCHANGED <<outside, pc, protocol, sent, out, origin, consumer, activeToolCallIds,
                   handlerFields, op, token, requests, failure, result, decoration>>

\* completePrompt has built the payload it sends, its prompt the text of the
\* first message.
BuildCompletePromptRequest ==
    /\ request.state = "called"
    /\ request.op = "completePrompt"
    /\ request' = [request EXCEPT !.state = "built"]
                    @@ [body |-> CompletePromptRequest(request.info, request.options,
                                     request.messages[1].content)]
    /\ UNCHANGED <<outside, pc, protocol, sent, out, origin, consumer, activeToolCallIds,
                   handlerFields, op, token, requests, failure, result, decoration>>

NextRequest == BuildCreateMessageRequest \/ BuildCompletePromptRequest

SpecRequest == InitRequest /\ [][NextRequest]_vars

\* One invocation over the chat protocol, its stream drawn from every kind of
\* chunk.
NextChat ==
    \/ Start(1, ChatInfos)
    \/ ChatChunkOf(1, ChatChunks, MaxChatChunks)
    \/ ChatEnd(1)

SpecChat == Init /\ [][NextChat]_vars

\* One invocation over the Responses protocol, its stream drawn from every
\* kind of event.
NextFrame ==
    \/ Start(1, ResponsesInfos)
    \/ ResponsesEvent(1, ResponsesEvents, MaxFrameEvents)
    \/ ResponsesEnd(1)

SpecFrame == Init /\ [][NextFrame]_vars

(* ---------------------------------------------------------------------- *)
(* The generator, pull by pull                                             *)
(* ---------------------------------------------------------------------- *)

\* The chunks and events of the streams read pull by pull: some yield
\* nothing, some one chunk, some several.
PullChunks ==
    { EmptyChunk,
      [EmptyChunk EXCEPT !.content = "a"],
      [EmptyChunk EXCEPT !.content = "a", !.tool_calls = <<FirstC1>>],
      [EmptyChunk EXCEPT !.content = "a", !.tool_calls = <<FirstC1>>,
                         !.finish_reason = "tool_calls"] }

PullEvents ==
    { Event("response.queued"),
      [Event("response.output_text.delta") EXCEPT !.delta = "a"],
      OutputItem("response.output_item.added",
          [MessageItem("text", "a") EXCEPT
              !.content = @ \o <<[type |-> "text", text |-> "b"]>>]) }

\* The consumer calls next() on the generator, which resumes.
Pull(c) ==
    /\ pc[c] \in {"streaming", "flushing"}
    /\ ~pulling[c]
    /\ pulling' = [pulling EXCEPT ![c] = TRUE]
    /\ UNCHANGED <<outside, pc, protocol, sent, out, origin, pending, activeToolCallIds,
                   handlerFields, outcome>>

\* The loop asks the transport for the next raw event whatever the consumer
\* has pulled.
TakesAhead(c) == TRUE

\* for await: the loop asks the transport for the next raw event when the
\* running generator has nothing left to yield for the previous one.
MayTake(c) == pulling[c] /\ pending[c] = <<>>

\* The next raw event is taken and the loop body starts on it.  The handler's
\* fields are written while the body runs; they are given here the values
\* they have once it has run.
Take(c) ==
    /\ pc[c] = "streaming"
    /\ MayTake(c)
    /\ Len(sent[c]) < MaxPullEvents
    /\ IF protocol[c] = "chat"
       THEN \E chunk \in PullChunks :
              LET ys == ChatChunkYields(chunk, activeToolCallIds[c]) IN
              /\ sent' = [sent EXCEPT ![c] = Append(@, chunk)]
              /\ pending' = [pending EXCEPT ![c] = @ \o ys]
              /\ origin' = [origin EXCEPT ![c] = @ \o From(Len(sent[c]) + 1, Len(ys))]
              /\ activeToolCallIds' = [activeToolCallIds EXCEPT ![c] =
                     ChatChunkActive(chunk, @)]
              /\ UNCHANGED handlerFields
       ELSE \E event \in PullEvents :
              LET ys == ResponsesYields(event, pendingToolCallId, pendingToolCallName) IN
              /\ sent' = [sent EXCEPT ![c] = Append(@, event)]
              /\ pending' = [pending EXCEPT ![c] = @ \o ys]
              /\ origin' = [origin EXCEPT ![c] = @ \o From(Len(sent[c]) + 1, Len(ys))]
              /\ pendingToolCallId' = ResponsesPendingId(event, pendingToolCallId)
              /\ pendingToolCallName' = ResponsesPendingName(event, pendingToolCallName)
              /\ UNCHANGED toolCallIdentityById
              /\ lastResponseId' = ResponsesLastId(event, lastResponseId)
              /\ UNCHANGED activeToolCallIds
    /\ UNCHANGED <<outside, pc, protocol, out, pulling, outcome>>

\* yield: the consumer receives the next chunk and the generator is suspended.
Deliver(c) ==
    /\ pulling[c]
    /\ pending[c] # <<>>
    /\ out' = [out EXCEPT ![c] = Append(@, Head(pending[c]))]
    /\ pending' = [pending EXCEPT ![c] = Tail(@)]
    /\ pulling' = [pulling EXCEPT ![c] = FALSE]
    /\ UNCHANGED <<outside, pc, protocol, sent, origin, activeToolCallIds, handlerFields,
                   outcome>>

\* The transport has no more raw events: on the chat path the flush after the
\* loop starts, on the Responses path the generator returns.
StreamEnds(c) ==
    /\ pc[c] = "streaming"
    /\ pulling[c]
    /\ pending[c] = <<>>
    /\ IF protocol[c] = "chat"
       THEN LET ys == FlushEnds(activeToolCallIds[c]) IN
            /\ pending' = [pending EXCEPT ![c] = ys]
            /\ origin' = [origin EXCEPT ![c] = @ \o From(Len(sent[c]) + 1, Len(ys))]
            /\ activeToolCallIds' = [activeToolCallIds EXCEPT ![c] = <<>>]
            /\ pc' = [pc EXCEPT ![c] = "flushing"]
            /\ UNCHANGED pulling
       ELSE /\ pc' = [pc EXCEPT ![c] = "done"]
            /\ pulling' = [pulling EXCEPT ![c] = FALSE]
            /\ UNCHANGED <<pending, origin, activeToolCallIds>>
    /\ UNCHANGED <<outside, protocol, sent, out, handlerFields, outcome>>

\* The flush has yielded everything: the generator returns.
Finish(c) ==
    /\ pc[c] = "flushing"
    /\ pulling[c]
    /\ pending[c] = <<>>
    /\ pc' = [pc EXCEPT ![c] = "done"]
    /\ pulling' = [pulling EXCEPT ![c] = FALSE]
    /\ UNCHANGED <<outside, protocol, sent, out, origin, pending, activeToolCallIds,
                   handlerFields, outcome>>

\* The consumer abandons the sequence and the generator yields the rest of
\* what it had started on, the flush included.
AbandonDrains(c) ==
    /\ pc[c] \in {"streaming", "flushing"}
    /\ ~pulling[c]
    /\ Len(out[c]) >= 1
    /\ pc' = [pc EXCEPT ![c] = "abandoned"]
    /\ out' = [out EXCEPT ![c] = @ \o pending[c] \o FlushEnds(activeToolCallIds[c])]
    /\ origin' = [origin EXCEPT ![c] =
           @ \o From(Len(sent[c]) + 1, Len(FlushEnds(activeToolCallIds[c])))]
    /\ pending' = [pending EXCEPT ![c] = <<>>]
    /\ UNCHANGED <<outside, protocol, sent, pulling, activeToolCallIds, handlerFields, outcome>>

\* The consumer abandons the sequence after a chunk it received: return() on
\* the suspended generator leaves the for await loops, which close the
\* iterators they read; the rest of the loop body and the flush after the
\* chat loop never run.
Abandon(c) ==
    /\ pc[c] \in {"streaming", "flushing"}
    /\ ~pulling[c]
    /\ Len(out[c]) >= 1
    /\ pc' = [pc EXCEPT ![c] = "abandoned"]
    /\ pending' = [pending EXCEPT ![c] = <<>>]
    /\ origin' = [origin EXCEPT ![c] = SubSeq(@, 1, Len(out[c]))]
    /\ UNCHANGED <<outside, protocol, sent, out, pulling, activeToolCallIds, handlerFields,
                   outcome>>

\* Two invocations read pull by pull, one after the other or interleaved.
NextPull ==
    \E c \in Calls :
        \/ Start(c, ModelInfos)
        \/ Pull(c)
        \/ Take(c)
        \/ Deliver(c)
        \/ StreamEnds(c)
        \/ Finish(c)
        \/ Abandon(c)

SpecPull == Init /\ [][NextPull]_vars

(* ---------------------------------------------------------------------- *)
(* Invocations one after the other, and the second variant of the handler  *)
(* ---------------------------------------------------------------------- *)

\* The events of the streams of invocations that follow one another: a tool
\* item, an arguments delta with neither id nor name, one with the id and no
\* name, a text delta.
SeqEvents ==
    { OutputItem("response.output_item.added",
                 FunctionCallItem("function_call", "t1", "nameA", Undefined)),
      ArgsDelta("response.function_call_arguments.delta", Undefined, Undefined, "x"),
      ArgsDelta("response.function_call_arguments.delta", "t1", Undefined, "x"),
      [Event("response.output_text.delta") EXCEPT !.delta = "a"] }

\* An invocation has ended: it returned, threw, or was abandoned.
Ended(c) == pc[c] \in {"done", "failed", "abandoned"}

\* createMessage is called once the invocations before it have ended.
StartInTurn(c) ==
    /\ \A d \in Calls : d < c => Ended(d)
    /\ Start(c, ResponsesInfos)

\* Invocations on one handler over the Responses protocol, each started after
\* the one before it has returned, thrown or been abandoned.
NextSeq ==
    \E c \in Calls :
        \/ StartInTurn(c)
        \/ ResponsesEvent(c, SeqEvents, MaxSeqEvents)
        \/ ResponsesEnd(c)
        \/ StreamFails(c)
        \/ Abandon(c)

SpecSeq == Init /\ [][NextSeq]_vars

\* this.toolCallIdentityById.get(callId), if callId is set
CachedIdentity(cache, callId) ==
    IF Truthy(callId) /\ \E r \in cache : r.id = callId
    THEN CHOOSE r \in cache : r.id = callId
    ELSE [id |-> Undefined, name |-> Undefined]

\* this.toolCallIdentityById after the event (second variant).
IdentityByIdAfter(event, cache) ==
    IF /\ event.type \in OutputItemTypes
       /\ event.item.present
       /\ event.item.type = "function_call"
       /\ Truthy(event.item.call_id)
       /\ Truthy(event.item.name)
    THEN { r \in cache : r.id # event.item.call_id }
         \cup { [id |-> event.item.call_id, name |-> event.item.name] }
    ELSE cache

\* What processResponsesEvent of the second variant yields for one event.
\* The events of the model carry no text and no content of their own, so the
\* text of a text or reasoning event is its delta.
CachedResponsesYields(event, cache) ==
    IF event.type \in {"response.text.delta", "response.output_text.delta",
                       "response.output_text", "response.text"}
    THEN (IF Truthy(event.delta) THEN <<TextEv(event.delta)>> ELSE <<>>)
    ELSE IF event.type \in {"response.reasoning.delta", "response.reasoning_text.delta",
                            "response.reasoning_summary.delta",
                            "response.reasoning_summary_text.delta"}
    THEN (IF Truthy(event.delta) THEN <<ReasoningEv(event.delta)>> ELSE <<>>)
    ELSE IF event.type \in OutputItemTypes
    THEN (IF /\ event.item.present
             /\ event.item.type = "function_call"
             /\ event.type = "response.output_item.done"
             /\ Truthy(event.item.call_id)
             /\ Truthy(event.item.name)
             /\ IsString(event.item.arguments) /\ Truthy(event.item.arguments)
          THEN <<ToolCallEv(event.item.call_id, event.item.name, event.item.arguments)>>
          ELSE <<>>)
    ELSE IF event.type \in ArgsDeltaTypes
    THEN LET cachedIdentity == CachedIdentity(cache, event.call_id)
             resolvedId == OrElse(event.call_id, cachedIdentity.id)
             resolvedName == OrElse(event.name, cachedIdentity.name)
         IN IF ~Truthy(resolvedId) \/ ~Truthy(resolvedName) THEN <<>>
            ELSE <<PartialEv(0, resolvedId, resolvedName, event.delta)>>
    ELSE IF event.type \in ArgsDoneTypes
    THEN (IF Truthy(event.call_id) THEN <<EndEv(event.call_id)>> ELSE <<>>)
    ELSE IF event.type \in CompletedTypes
    THEN (IF event.response.usage_present THEN UsageYield(event.response) ELSE <<>>)
    ELSE <<>>

\* createMessage of the second variant is called, once the invocations before
\* it have ended, with a valid token and a capability record that selects the
\* Responses protocol; it resets nothing.
StartCached(c) ==
    /\ pc[c] = "idle"
    /\ \A d \in Calls : d < c => Ended(d)
    /\ \E tk \in Tokens :
         /\ HasAccessToken(tk)
         /\ token' = [token EXCEPT ![c] = tk]
    /\ op' = [op EXCEPT ![c] = "createMessage"]
    /\ requests' = [requests EXCEPT ![c] = @ + 1]
    /\ protocol' = [protocol EXCEPT ![c] = "responses"]
    /\ pc' = [pc EXCEPT ![c] = "streaming"]
    /\ UNCHANGED <<outside, sent, out, origin, consumer, activeToolCallIds, handlerFields,
                   failure, result, decoration, request>>

\* One iteration of the Responses loop of the second variant.
CachedEvent(c) ==
    /\ pc[c] = "streaming"
    /\ protocol[c] = "responses"
    /\ Len(sent[c]) < MaxSeqEvents
    /\ \E event \in SeqEvents :
         LET ys == CachedResponsesYields(event, toolCallIdentityById) IN
         /\ sent' = [sent EXCEPT ![c] = Append(@, event)]
         /\ out' = [out EXCEPT ![c] = Yield(@, ys)]
         /\ origin' = [origin EXCEPT ![c] = @ \o From(Len(sent[c]) + 1, Len(ys))]
         /\ toolCallIdentityById' = IdentityByIdAfter(event, toolCallIdentityById)
    /\ UNCHANGED <<outside, pc, protocol, activeToolCallIds, pendingToolCallId,
                   pendingToolCallName, lastResponseId, outcome, consumer>>

\* Invocations on one handler of the second variant, one after the other.
NextCached ==
    \E c \in Calls :
        \/ StartCached(c)
        \/ CachedEvent(c)
        \/ ResponsesEnd(c)
        \/ StreamFails(c)
        \/ Abandon(c)

SpecCached == Init /\ [][NextCached]_vars

(* ---------------------------------------------------------------------- *)
(* Reading the streams                                                     *)
(* ---------------------------------------------------------------------- *)

IsPartial(e) == e.type = "tool_call_partial"

IsEnd(e) == e.type = "tool_call_end"

IsUsage(e) == e.type = "usage"

\* The tool-call ids of the model's streams.
CallIds == {"c1", "c2", "t1", "t2"}

\* A string-or-undefined value as a string.
Str(v) == IF IsString(v) THEN v ELSE ""

\* The strings of a sequence, concatenated.
RECURSIVE Concat(_)
Concat(ss) == IF ss = <<>> THEN "" ELSE Head(ss) \o Concat(Tail(ss))

\* The argument fragments of the tool_call_partial events of o that carry id.
PartialArgs(o, id) ==
    LET ps == SelectSeq(o, LAMBDA e : IsPartial(e) /\ e.id = id)
    IN [i \in 1..Len(ps) |-> Str(ps[i].arguments)]

\* All tool_calls entries of a chat stream, in arrival order.
RECURSIVE ChatEntries(_)
ChatEntries(s) ==
    IF s = <<>> THEN <<>> ELSE Head(s).tool_calls \o ChatEntries(Tail(s))

\* The provider's id for each index after the given entries: the id of the
\* latest entry of that index that carried one.
RECURSIVE SlotId(_, _)
SlotId(entries, idx) ==
    IF entries = <<>> THEN Undefined
    ELSE LET e == entries[Len(entries)] IN
         IF e.index = idx /\ Truthy(e.id) THEN e.id
         ELSE SlotId(SubSeq(entries, 1, Len(entries) - 1), idx)

\* The fragments the provider sent for call id over a chat stream: an entry
\* belongs to the id it carries, or else to the id of its index.
ChatProviderArgs(s, id) ==
    LET es == ChatEntries(s)
        mine == {k \in 1..Len(es) : SlotId(SubSeq(es, 1, k), es[k].index) = id}
        ks == SelectSeq([k \in 1..Len(es) |-> k], LAMBDA k : k \in mine)
    IN [i \in 1..Len(ks) |-> Str(es[ks[i]].arguments)]

\* The id an arguments delta carries itself.
EventCallId(event) == OrElse(event.call_id, OrElse(event.tool_call_id, event.id))

\* The call id of the item the provider is streaming after the first k events:
\* the latest function-call item added.
RECURSIVE CurrentItemId(_, _)
CurrentItemId(s, k) ==
    IF k = 0 THEN Undefined
    ELSE IF s[k].type = "response.output_item.added" /\ RecordsIdentity(s[k])
         THEN ItemCallId(s[k].item)
    ELSE CurrentItemId(s, k - 1)

\* The fragments the provider sent for call id over a Responses stream: a delta
\* belongs to the id it carries, or else to the item being streamed.
ResponsesProviderArgs(s, id) ==
    LET mine == {k \in 1..Len(s) :
                   /\ s[k].type \in ArgsDeltaTypes
                   /\ id = (IF Truthy(EventCallId(s[k])) THEN EventCallId(s[k])
                            ELSE CurrentItemId(s, k - 1))}
        ks == SelectSeq([k \in 1..Len(s) |-> k], LAMBDA k : k \in mine)
    IN [i \in 1..Len(ks) |-> Str(OrElse(s[ks[i]].delta, s[ks[i]].arguments))]

\* The name recorded for call id by the first k events of a Responses stream.
RECURSIVE RecordedName(_, _, _)
RecordedName(s, k, id) ==
    IF k = 0 THEN Undefined
    ELSE IF RecordsIdentity(s[k]) /\ ItemCallId(s[k].item) = id
              /\ NonEmptyString(ItemName(s[k].item))
         THEN ItemName(s[k].item)
    ELSE RecordedName(s, k - 1, id)

\* The ids recorded by the output_item events of a Responses stream.
IdsRecordedBy(s) ==
    {ItemCallId(s[k].item) : k \in {n \in 1..Len(s) : RecordsIdentity(s[n])}}

\* This step took a raw event from the transport of invocation c.
Consumed(c) == Len(sent'[c]) = Len(sent[c]) + 1

\* The raw event this step took.
Taken(c) == sent'[c][Len(sent'[c])]

\* The normalized events this step delivered.
Delivered(c) == SubSeq(out'[c], Len(out[c]) + 1, Len(out'[c]))

(* ---------------------------------------------------------------------- *)
(* Properties                                                              *)
(* ---------------------------------------------------------------------- *)

\* C1: when an invocation has ended, every tool-call id that appears in at
\* least one emitted tool_call_partial has exactly one tool_call_end in the
\* output, whether or not the raw stream carried a completion event for it.
EveryPartialIdEndsOnce ==
    \A c \in Calls :
        pc[c] = "done" =>
            \A i \in 1..Len(out[c]) :
                (IsPartial(out[c][i]) /\ NonEmptyString(out[c][i].id)) =>
                    Cardinality({j \in 1..Len(out[c]) :
                                    out[c][j] = EndEv(out[c][i].id)}) = 1

\* C2: round-trip fidelity: for every tool-call id, the arguments of the
\* emitted tool_call_partial events carrying that id, concatenated in emission
\* order, are the fragments the provider sent for that call, concatenated in
\* arrival order.
RoundTripFidelity ==
    \A c \in Calls : \A id \in CallIds :
        Concat(PartialArgs(out[c], id)) =
            Concat(IF protocol[c] = "chat" THEN ChatProviderArgs(sent[c], id)
                   ELSE ResponsesProviderArgs(sent[c], id))

\* C3: on the Responses path, a tool_call_partial produced from an arguments
\* delta that carries a call id and no name has the name recorded for that
\* same id by the output_item events before it.
NameMatchesRecordedId ==
    \A c \in Calls :
        protocol[c] = "responses" =>
            \A i \in 1..Len(out[c]) :
                LET ev == sent[c][origin[c][i]]
                    rec == RecordedName(sent[c], origin[c][i] - 1, out[c][i].id)
                IN (/\ IsPartial(out[c][i])
                    /\ Truthy(EventCallId(ev))
                    /\ ~Truthy(OrElse(ev.name, ev.function_name))
                    /\ rec # Undefined)
                   => out[c][i].name = rec

\* C4: a tool-call argument fragment whose id or name cannot be resolved
\* produces no output and leaves the pending identity and the set of open
\* ids unchanged; every emitted tool_call_partial has a non-empty id and a
\* non-empty name.
UnresolvedFragmentsDropped ==
    [][\A c \in Calls :
         Consumed(c) =>
           /\ \A i \in 1..Len(Delivered(c)) :
                IsPartial(Delivered(c)[i]) =>
                    /\ NonEmptyString(Delivered(c)[i].id)
                    /\ NonEmptyString(Delivered(c)[i].name)
           /\ (/\ protocol[c] = "responses"
               /\ Taken(c).type \in ArgsDeltaTypes
               /\ \/ ~NonEmptyString(DeltaCallId(Taken(c), pendingToolCallId))
                  \/ ~NonEmptyString(DeltaName(Taken(c), pendingToolCallName)))
              => /\ Delivered(c) = <<>>
                 /\ pendingToolCallId' = pendingToolCallId
                 /\ pendingToolCallName' = pendingToolCallName
           /\ (/\ protocol[c] = "chat"
               /\ Taken(c).tool_calls # <<>>
               /\ \A k \in 1..Len(Taken(c).tool_calls) :
                     /\ ~Truthy(Taken(c).tool_calls[k].id)
                     /\ ~Truthy(SlotId(ChatEntries(sent[c]), Taken(c).tool_calls[k].index)))
              => /\ \A i \in 1..Len(Delivered(c)) : ~IsPartial(Delivered(c)[i])
                 /\ activeToolCallIds'[c] = activeToolCallIds[c]
      ]_vars

\* C5: all tool_call_partial events of an id come before its tool_call_end:
\* no tool_call_partial follows a tool_call_end with the same id.
NoPartialAfterEnd ==
    \A c \in Calls : \A i, j \in 1..Len(out[c]) :
        (i < j /\ IsEnd(out[c][i]) /\ IsPartial(out[c][j]))
            => out[c][j].id # out[c][i].id

\* C6: usage is the terminal event class: nothing but usage follows a usage
\* event in the output of one invocation.
UsageIsTerminal ==
    \A c \in Calls : \A i, j \in 1..Len(out[c]) :
        (i < j /\ IsUsage(out[c][i])) => IsUsage(out[c][j])

\* C7: one invocation emits at most one usage event.
AtMostOneUsage ==
    \A c \in Calls :
        Cardinality({i \in 1..Len(out[c]) : IsUsage(out[c][i])}) <= 1

\* C8: pending identity is scoped to one invocation: when two invocations on
\* the same handler interleave, an arguments delta of one is resolved only
\* with an id it carries itself or one recorded by an output_item event of its
\* own invocation, and starting an invocation does not erase the identity
\* another running invocation has recorded.
PendingIdentityPerCall ==
    [][\A c \in Calls :
         /\ (/\ Consumed(c)
             /\ Taken(c).type \in ArgsDeltaTypes
             /\ Delivered(c) # <<>>)
            => \/ Delivered(c)[1].id = EventCallId(Taken(c))
               \/ Delivered(c)[1].id \in IdsRecordedBy(sent[c])
         /\ (/\ pc[c] = "idle"
             /\ pc'[c] = "streaming"
             /\ \E d \in Calls \ {c} :
                    /\ pc[d] = "streaming"
                    /\ pendingToolCallId \in IdsRecordedBy(sent[d]))
            => /\ pendingToolCallId' = pendingToolCallId
               /\ pendingToolCallName' = pendingToolCallName
      ]_vars

\* The positions of o, in order, whose event satisfies Test.
Positions(o, Test(_)) ==
    SelectSeq([i \in 1..Len(o) |-> i], LAMBDA i : Test(o[i]))

\* The non-empty text deltas of a raw stream, in arrival order: delta.content
\* of a chat chunk, delta of a Responses text delta event.
SentTexts(s) ==
    LET ks == Positions(s, LAMBDA r :
                  \/ r.kind = "chunk" /\ Truthy(r.content)
                  \/ r.kind = "event" /\ r.type \in TextDeltaTypes /\ Truthy(r.delta))
    IN [i \in 1..Len(ks) |->
           IF s[ks[i]].kind = "chunk" THEN s[ks[i]].content ELSE s[ks[i]].delta]

\* The non-empty reasoning deltas of a raw stream, in arrival order.
SentReasonings(s) ==
    LET ks == Positions(s, LAMBDA r :
                  \/ r.kind = "chunk" /\ Truthy(ChatReasoningText(r))
                  \/ r.kind = "event" /\ r.type \in ReasoningDeltaTypes /\ Truthy(r.delta))
    IN [i \in 1..Len(ks) |->
           IF s[ks[i]].kind = "chunk" THEN ChatReasoningText(s[ks[i]]) ELSE s[ks[i]].delta]

\* Raw event number k of stream s is a delta of the given normalized kind.
IsDeltaOf(s, k, type) ==
    /\ k \in 1..Len(s)
    /\ \/ s[k].kind = "chunk"
       \/ type = "text" /\ s[k].type \in TextDeltaTypes
       \/ type = "reasoning" /\ s[k].type \in ReasoningDeltaTypes

\* The contents of the events of o of the given kind that came from deltas.
EmittedFromDeltas(c, type) ==
    LET ks == SelectSeq([i \in 1..Len(out[c]) |-> i],
                        LAMBDA i : /\ out[c][i].type = type
                                   /\ IsDeltaOf(sent[c], origin[c][i], type))
    IN [i \in 1..Len(ks) |-> out[c][ks[i]].text]

\* The fragments of the chat entries that carry the given id field, in order.
ChatEntryArgs(s, id) ==
    LET es == SelectSeq(ChatEntries(s), LAMBDA e : e.id = id)
    IN [i \in 1..Len(es) |-> Str(es[i].arguments)]

\* C9: the output keeps the relative order of same-kind fragments: the text
\* events are the text deltas in arrival order, the reasoning events the
\* reasoning deltas in arrival order, and the tool_call_partial events of one
\* id carry that id's fragments in arrival order.
SameKindOrderPreserved ==
    \A c \in Calls :
        /\ EmittedFromDeltas(c, "text") = SentTexts(sent[c])
        /\ EmittedFromDeltas(c, "reasoning") = SentReasonings(sent[c])
        /\ protocol[c] = "chat" =>
             \A id \in CallIds \cup {Undefined} :
                 PartialArgs(out[c], id) = ChatEntryArgs(sent[c], id)
        /\ protocol[c] = "responses" =>
             \A i, j \in 1..Len(out[c]) :
                 (/\ i < j
                  /\ IsPartial(out[c][i])
                  /\ IsPartial(out[c][j])
                  /\ out[c][i].id = out[c][j].id)
                 => /\ origin[c][i] < origin[c][j]
                    /\ out[c][i].arguments =
                         OrElse(sent[c][origin[c][i]].delta,
                                sent[c][origin[c][i]].arguments)
                    /\ out[c][j].arguments =
                         OrElse(sent[c][origin[c][j]].delta,
                                sent[c][origin[c][j]].arguments)

\* C9 witness: text, reasoning and tool-call deltas interleaved in one stream
\* of three raw events: two different texts were emitted with a reasoning or
\* tool_call_partial event between them.
InterleavedKindsEmitted ==
    \E c \in Calls :
        /\ \E i, j, k \in 1..Len(out[c]) :
              /\ i < j /\ j < k
              /\ out[c][i].type = "text"
              /\ out[c][j].type \in {"reasoning", "tool_call_partial"}
              /\ out[c][k].type = "text"
              /\ out[c][i].text # out[c][k].text
        /\ Len(sent[c]) = 3

\* The texts of the content parts of a message item, concatenated.
ItemText(item) ==
    LET ts == MessageTexts(item.content)
    IN Concat([i \in 1..Len(ts) |-> ts[i].text])

\* C10: nothing is delivered twice on the Responses path: a message item whose
\* text already arrived as text deltas adds no text event, and no tool_call
\* event carries the arguments already emitted as tool_call_partial fragments
\* of the same id.
NoDuplicateOutput ==
    \A c \in Calls :
        protocol[c] = "responses" =>
            /\ \A i \in 1..Len(out[c]) :
                 LET k == origin[c][i] IN
                 (/\ out[c][i].type = "text"
                  /\ k \in 1..Len(sent[c])
                  /\ sent[c][k].type \in OutputItemTypes
                  /\ sent[c][k].item.type = "message")
                 => ItemText(sent[c][k].item)
                       # Concat(SentTexts(SubSeq(sent[c], 1, k - 1)))
            /\ \A i \in 1..Len(out[c]) :
                 out[c][i].type = "tool_call"
                 => out[c][i].arguments
                       # Concat(PartialArgs(SubSeq(out[c], 1, i - 1), out[c][i].id))

(* ---------------------------------------------------------------------- *)
(* Events outside the classification                                       *)
(* ---------------------------------------------------------------------- *)

\* The discriminators processResponsesEvent has a branch for.
RecognizedTypes ==
    TextDeltaTypes \cup ReasoningDeltaTypes \cup RefusalDeltaTypes
    \cup ArgsDeltaTypes \cup ArgsDoneTypes \cup OutputItemTypes \cup CompletedTypes

\* The step consumes a Responses event whose discriminator has no branch.
TakesUnknownEvent(c) ==
    /\ Consumed(c)
    /\ protocol[c] = "responses"
    /\ Taken(c).type \notin RecognizedTypes

\* C11: an event whose type discriminator is not recognized is ignored,
\* whatever other fields it carries: processing it delivers no normalized
\* event and leaves the pending tool-call identity as it was.
UnknownEventIgnored ==
    [][\A c \in Calls :
          TakesUnknownEvent(c) =>
              /\ Delivered(c) = <<>>
              /\ pendingToolCallId' = pendingToolCallId
              /\ pendingToolCallName' = pendingToolCallName]_vars

(* ---------------------------------------------------------------------- *)
(* Arguments done and output items                                         *)
(* ---------------------------------------------------------------------- *)

\* C12: processing an arguments done event that carries call id X delivers
\* tool_call_end for X and removes X from the pending identity, so that a
\* later identity-less delta can no longer resolve to X.
ArgsDoneEndsToolCall ==
    [][\A c \in Calls :
          (/\ Consumed(c)
           /\ protocol[c] = "responses"
           /\ Taken(c).type \in ArgsDoneTypes
           /\ Truthy(Taken(c).call_id))
          => /\ Delivered(c) = <<EndEv(Taken(c).call_id)>>
             /\ pendingToolCallId' # Taken(c).call_id]_vars

IsToolCall(e) == e.type = "tool_call"

\* The step consumes an output_item event whose item is a function call.
TakesToolItem(c) ==
    /\ Consumed(c)
    /\ protocol[c] = "responses"
    /\ Taken(c).type \in OutputItemTypes
    /\ Taken(c).item.present
    /\ IsToolItem(Taken(c).item)

\* C13: an output_item event with a function-call item records the item's
\* identity, on added and on done alike; a tool_call event is delivered only
\* for response.output_item.done, never for added, at most one per event, and
\* only when the item has a call id, which the tool_call carries.
ToolCallOnlyOnItemDone ==
    [][\A c \in Calls :
          /\ TakesToolItem(c) =>
                /\ NonEmptyString(ItemCallId(Taken(c).item))
                      => pendingToolCallId' = ItemCallId(Taken(c).item)
                /\ Len(Positions(Delivered(c), IsToolCall)) <= 1
                /\ \A i \in 1..Len(Delivered(c)) :
                      IsToolCall(Delivered(c)[i])
                      => /\ Taken(c).type = "response.output_item.done"
                         /\ Truthy(ItemCallId(Taken(c).item))
                         /\ Delivered(c)[i].id = ItemCallId(Taken(c).item)
          /\ (\E i \in 1..Len(Delivered(c)) : IsToolCall(Delivered(c)[i]))
                => TakesToolItem(c)]_vars

\* A function-call item was seen on added and then on done: its identity is
\* pending and one tool_call has been delivered for it, while a done item
\* without a call id delivered nothing.
ToolCallAfterAddedAndDone ==
    \E c \in Calls :
        /\ protocol[c] = "responses"
        /\ Len(sent[c]) = 3
        /\ sent[c][1].type = "response.output_item.added"
        /\ IsToolItem(sent[c][1].item)
        /\ sent[c][2].type = "response.output_item.done"
        /\ IsToolItem(sent[c][2].item)
        /\ ItemCallId(sent[c][2].item) = ItemCallId(sent[c][1].item)
        /\ sent[c][3].type = "response.output_item.done"
        /\ IsToolItem(sent[c][3].item)
        /\ ~Truthy(ItemCallId(sent[c][3].item))
        /\ pendingToolCallId = ItemCallId(sent[c][1].item)
        /\ Len(out[c]) = 1
        /\ IsToolCall(out[c][1])
        /\ origin[c][1] = 2

\* C14: once a name has been recorded for a call id, a later sighting of that
\* call id that carries no name does not erase the recorded name.
RecordedNameSurvives ==
    [][\A c \in Calls :
          (/\ TakesToolItem(c)
           /\ ItemCallId(Taken(c).item) = pendingToolCallId
           /\ NonEmptyString(pendingToolCallName)
           /\ ~Truthy(ItemName(Taken(c).item)))
          => pendingToolCallName' = pendingToolCallName]_vars

(* ---------------------------------------------------------------------- *)
(* Identity resolution scenarios                                           *)
(* ---------------------------------------------------------------------- *)

\* C16: when response.output_item.added with a function-call item of call id
\* X and name N is followed by an arguments delta that carries call id X, a
\* fragment and no name, the delta is delivered as exactly one
\* tool_call_partial with id X, name N and that fragment: the name comes from
\* the identity recorded by the output item.
DeltaNamedByOutputItem ==
    [][\A c \in Calls :
          (/\ Consumed(c)
           /\ protocol[c] = "responses"
           /\ Len(sent[c]) >= 1
           /\ sent[c][Len(sent[c])].type = "response.output_item.added"
           /\ IsToolItem(sent[c][Len(sent[c])].item)
           /\ NonEmptyString(ItemCallId(sent[c][Len(sent[c])].item))
           /\ NonEmptyString(ItemName(sent[c][Len(sent[c])].item))
           /\ Taken(c).type \in ArgsDeltaTypes
           /\ Taken(c).call_id = ItemCallId(sent[c][Len(sent[c])].item)
           /\ ~Truthy(Taken(c).name)
           /\ ~Truthy(Taken(c).function_name)
           /\ NonEmptyString(Taken(c).delta))
          => Delivered(c) =
                <<PartialEv(0, Taken(c).call_id,
                            ItemName(sent[c][Len(sent[c])].item), Taken(c).delta)>>]_vars

\* The scenario has run: an added function-call item, then a nameless delta
\* for its call id, and one partial carrying the item's name.
NamelessDeltaGotName ==
    \E c \in Calls :
        /\ protocol[c] = "responses"
        /\ Len(sent[c]) = 2
        /\ sent[c][1].type = "response.output_item.added"
        /\ IsToolItem(sent[c][1].item)
        /\ NonEmptyString(ItemName(sent[c][1].item))
        /\ sent[c][2].type \in ArgsDeltaTypes
        /\ sent[c][2].call_id = ItemCallId(sent[c][1].item)
        /\ ~Truthy(sent[c][2].name)
        /\ Len(out[c]) = 1
        /\ IsPartial(out[c][1])
        /\ out[c][1].id = sent[c][2].call_id
        /\ out[c][1].name = ItemName(sent[c][1].item)
        /\ out[c][1].arguments = sent[c][2].delta

\* C15: for the chat stream [content "Hi"; tool call c1/lookup with the first
\* fragment; tool call c1 with the second fragment and no name; finish reason
\* tool_calls; usage 10/5] the output is exactly text "Hi", two partials of
\* c1 that both carry the name lookup, tool_call_end of c1, usage 10/5.
ChatScenarioOutput ==
    \A c \in Calls :
        (pc[c] = "done" /\ sent[c] = ScenarioStream) =>
            /\ Len(out[c]) = 5
            /\ out[c][1] = TextEv("Hi")
            /\ IsPartial(out[c][2])
            /\ out[c][2].id = "c1"
            /\ out[c][2].name = "lookup"
            /\ out[c][2].arguments = "{\"q\":"
            /\ IsPartial(out[c][3])
            /\ out[c][3].id = "c1"
            /\ out[c][3].name = "lookup"
            /\ out[c][3].arguments = "\"x\"}"
            /\ out[c][4] = EndEv("c1")
            /\ out[c][5] = UsageEv(10, 5)

(* ---------------------------------------------------------------------- *)
(* Authentication, errors and retries                                      *)
(* ---------------------------------------------------------------------- *)

\* C17: when the credential manager returns no token, or a token whose
\* access_token is empty, createMessage and completePrompt fail with the
\* sign-in error before any request is issued, and nothing is delivered.
AuthFailsFast ==
    \A c \in Calls :
        (/\ op[c] # "none"
         /\ \/ ~token[c].present
            \/ token[c].access_token \in {Undefined, ""})
        => /\ pc[c] = "failed"
           /\ failure[c].at = "auth"
           /\ failure[c].error = SignInError
           /\ requests[c] = 0
           /\ sent[c] = <<>>
           /\ out[c] = <<>>
           /\ result[c] = Undefined

\* completePrompt was called with a token whose access_token is the empty
\* string and has failed.
FailedOnEmptyAccessToken ==
    \E c \in Calls :
        /\ op[c] = "completePrompt"
        /\ token[c].present
        /\ token[c].access_token = ""
        /\ pc[c] = "failed"

\* The provider names handleOpenAIError is called with.
ProviderNames == {"Oracle Code Assist", "Oracle Code Assist (Responses API)"}

\* The messages an error can have before decoration.
UndecoratedMessages ==
    { e.message : e \in RawErrors }
    \cup { HandleOpenAIError(e, n).message : e \in RawErrors, n \in ProviderNames }

\* The message is some message followed by the request id.
MentionsRequestId(m, id) ==
    \E base \in UndecoratedMessages : m = base \o " opc-request-id: " \o id

\* C18: every error createMessage or completePrompt throws to the caller has
\* the opc-request-id in its message whenever the raw error has that header,
\* over both protocols, for a failed request and for a failed stream alike.
ErrorsCarryRequestId ==
    \A c \in Calls :
        (/\ pc[c] = "failed"
         /\ failure[c].at \in {"open", "stream"}
         /\ failure[c].raw.headers = "get"
         /\ failure[c].raw.opc_request_id \notin {Undefined, ""})
        => MentionsRequestId(failure[c].error.message, failure[c].raw.opc_request_id)

\* C19: the decorator only enriches.  When the raw error's headers give a
\* non-empty opc-request-id, the message of the translated error becomes the
\* old message followed by the id, on the same object and with the same
\* status; when there are no headers, no get function or an empty value, the
\* translated error is returned unchanged.
DecoratorOnlyEnriches ==
    decoration.state = "returned" =>
        LET e == decoration.error
            p == decoration.processedError
            r == decoration.result
        IN IF e.headers = "get" /\ e.opc_request_id \notin {Undefined, ""}
           THEN p.has_message =>
                   /\ r.message = p.message \o " opc-request-id: " \o e.opc_request_id
                   /\ r.object = p.object
                   /\ r.status = p.status
                   /\ r.has_message
           ELSE r = p

\* The decorator has returned a translated error whose message it extended
\* with the id of the raw error.
DecoratedWithRequestId ==
    /\ decoration.state = "returned"
    /\ decoration.error.headers = "get"
    /\ decoration.error.opc_request_id = "req-1"
    /\ decoration.processedError.message = "failed"
    /\ decoration.result.message = "failed opc-request-id: req-1"

\* C20: one createMessage invocation issues at most one request; when the
\* request or the stream fails the invocation is failed, with the error for
\* the caller recorded, and from then on it issues no request, changes
\* neither state nor protocol and delivers nothing more.
NeverRetries ==
    [][\A c \in Calls :
          op'[c] = "createMessage" =>
              /\ requests'[c] <= 1
              /\ pc'[c] = "failed" => failure'[c].at # "none"
              /\ failure'[c].at # "none" => pc'[c] = "failed"
              /\ pc[c] = "streaming" =>
                    /\ requests'[c] = requests[c]
                    /\ protocol'[c] = protocol[c]
              /\ pc[c] = "failed" =>
                    /\ pc'[c] = "failed"
                    /\ requests'[c] = requests[c]
                    /\ protocol'[c] = protocol[c]
                    /\ out'[c] = out[c]]_vars

\* A createMessage invocation failed in mid-stream, after delivering events,
\* having issued its one request.
StreamFailedAfterOutput ==
    \E c \in Calls :
        /\ op[c] = "createMessage"
        /\ pc[c] = "failed"
        /\ failure[c].at = "stream"
        /\ requests[c] = 1
        /\ Len(out[c]) > 0

(* ---------------------------------------------------------------------- *)
(* Classification of delta events                                          *)
(* ---------------------------------------------------------------------- *)

\* C30: on the Responses path a text delta with a non-empty delta delivers
\* exactly one text event with that content, a reasoning or reasoning-summary
\* delta exactly one reasoning event with that content, a refusal delta
\* exactly one text event whose content is the refusal marker followed by the
\* delta; a delta event with absent or empty content delivers nothing; and
\* none of these events changes the pending tool-call identity.
DeltasClassified ==
    [][\A c \in Calls :
          (/\ Consumed(c)
           /\ protocol[c] = "responses"
           /\ Taken(c).type \in
                 TextDeltaTypes \cup ReasoningDeltaTypes \cup RefusalDeltaTypes)
          => /\ pendingToolCallId' = pendingToolCallId
             /\ pendingToolCallName' = pendingToolCallName
             /\ Delivered(c) =
                  IF Taken(c).delta \in {Undefined, ""} THEN <<>>
                  ELSE IF Taken(c).type \in {"response.text.delta",
                                             "response.output_text.delta"}
                  THEN <<[type |-> "text", text |-> Taken(c).delta]>>
                  ELSE IF Taken(c).type = "response.refusal.delta"
                  THEN <<[type |-> "text", text |-> "[Refusal] " \o Taken(c).delta]>>
                  ELSE <<[type |-> "reasoning", text |-> Taken(c).delta]>>]_vars

\* A refusal delta arrived while an identity was pending and was delivered
\* as marked text.
RefusalDeliveredAsText ==
    \E c \in Calls :
        /\ protocol[c] = "responses"
        /\ Len(sent[c]) = 2
        /\ sent[c][2].type = "response.refusal.delta"
        /\ sent[c][2].delta = "a"
        /\ pendingToolCallId = "t1"
        /\ out[c] = <<TextEv("[Refusal] a")>>

(* ---------------------------------------------------------------------- *)
(* The conversation formatter                                              *)
(* ---------------------------------------------------------------------- *)

RECURSIVE Flatten(_)
Flatten(ss) == IF ss = <<>> THEN <<>> ELSE Head(ss) \o Flatten(Tail(ss))

\* What a block of a message contributes to the input, named by its kind and
\* its text, image or call id; nothing for a block the role does not carry.
BlockPiece(role, b) ==
    IF b.type = "text" THEN <<<<"text", b.text>>>>
    ELSE IF b.type = "image" /\ role = "user" THEN <<<<"image", ImageUrl(b)>>>>
    ELSE IF b.type = "tool_result" /\ role = "user"
    THEN <<<<"call", SanitizeOpenAiCallId(b.tool_use_id)>>>>
    ELSE IF b.type = "tool_use" /\ role = "assistant"
    THEN <<<<"call", SanitizeOpenAiCallId(b.id)>>>>
    ELSE <<>>

\* The pieces of a conversation in source order: message by message and,
\* within a message, block by block.
SourcePieces(messages) ==
    Flatten(Map(messages, LAMBDA m :
        IF m.type = "reasoning" THEN <<<<"reasoning", "">>>>
        ELSE IF m.role \notin {"user", "assistant"} THEN <<>>
        ELSE IF m.content_is_string THEN <<<<"text", m.content>>>>
        ELSE Flatten(Map(m.blocks, LAMBDA b : BlockPiece(m.role, b)))))

\* The pieces of the input items in the order they are sent.
InputPieces(input) ==
    Flatten(Map(input, LAMBDA item :
        IF item.type = "reasoning" THEN <<<<"reasoning", "">>>>
        ELSE IF item.type \in {"function_call_output", "function_call"}
        THEN <<<<"call", item.call_id>>>>
        ELSE Map(item.content, LAMBDA part :
                 IF part.type = "input_image" THEN <<"image", part.image_url>>
                 ELSE <<"text", part.text>>)))

\* C25: formatFullConversation preserves source order: the input items
\* carry the messages' pieces in the order of the messages and, within one
\* message, in the order of its content blocks, also when a tool_result
\* block precedes a text block or a tool_use block precedes a text block.
FormatterPreservesOrder ==
    (request.state = "returned" /\ request.op = "formatFullConversation")
    => InputPieces(request.input) = SourcePieces(request.messages)


\* Operation o has built a request over the given protocol.
BuiltFor(o, proto) ==
    /\ request.state = "built"
    /\ request.op = o
    /\ request.body.protocol = proto

\* The conditions under which native tools are eligible for a request.
NativeToolsEligible ==
    /\ request.info.supportsNativeTools
    /\ request.metadata.tools.present
    /\ Len(request.metadata.tools.list) > 0
    /\ request.metadata.toolProtocol # "xml"
    /\ request.metadata.tool_choice # "none"

\* C23: a request createMessage builds carries tool definitions only when the
\* model supports native tools, the call supplies at least one tool, the tool
\* protocol is not "xml" and the tool choice is not "none".
ToolsOnlyWhenEligible ==
    (request.state = "built" /\ request.op = "createMessage"
        /\ request.body.tools.present)
    => NativeToolsEligible

\* C24: on the chat protocol, with native tools active an absent or "auto"
\* tool choice is sent as "required" and any other choice is sent as given;
\* without native tools the choice is sent as given and no tool definitions
\* or parallel-tool-calls setting are sent.
ChatToolChoiceResolved ==
    BuiltFor("createMessage", "chat") =>
        LET requested == request.metadata.tool_choice
            body == request.body
        IN IF NativeToolsEligible
           THEN /\ body.tools.present
                /\ body.has_parallel_tool_calls
                /\ body.parallel_tool_calls = request.metadata.parallelToolCalls
                /\ body.tool_choice =
                      IF requested \in {Undefined, "auto"} THEN "required"
                      ELSE requested
           ELSE /\ ~body.tools.present
                /\ ~body.has_parallel_tool_calls
                /\ body.tool_choice = requested

\* A chat request with native tools active whose "auto" choice went out as
\* "required".
AutoChoiceSentAsRequired ==
    /\ BuiltFor("createMessage", "chat")
    /\ NativeToolsEligible
    /\ request.metadata.tool_choice = "auto"
    /\ request.body.tool_choice = "required"
    /\ request.body.tools.present

\* C26: completePrompt sends its request over the protocol the capability
\* record selects for createMessage.
CompletePromptSameProtocol ==
    (request.state = "built" /\ request.op = "completePrompt")
    => request.body.protocol =
          (IF PrefersResponses(request.info) THEN "responses" ELSE "chat")

\* C28: a Responses request carries a reasoning block, and asks for encrypted
\* reasoning content, exactly when the model supports reasoning effort and the
\* resolved effort (user setting, else model default) is set and not "disable".
ReasoningOnlyWhenSupported ==
    BuiltFor("createMessage", "responses") =>
        LET resolved == IF request.options.reasoningEffort # Undefined
                        THEN request.options.reasoningEffort
                        ELSE request.info.reasoningEffort
            wanted == /\ request.info.supportsReasoningEffort
                      /\ resolved # Undefined
                      /\ resolved # "disable"
        IN /\ request.body.reasoning.present <=> wanted
           /\ request.body.include.present <=> wanted

\* C29: a Responses request streams, is not stored, carries the system prompt
\* as instructions, carries max_output_tokens only if output-token inclusion
\* is enabled and the model has a token limit, marks exactly the non-MCP tools
\* strict, and normalizes the parameter schemas of exactly the MCP tools.
ResponsesBodyShape ==
    BuiltFor("createMessage", "responses") =>
        LET body == request.body
        IN /\ body.stream
           /\ ~body.store
           /\ body.instructions = request.systemPrompt
           /\ (body.max_output_tokens # NoNum) <=>
                 (request.options.includeMaxTokens /\ request.info.maxTokens # 0)
           /\ body.max_output_tokens \in {NoNum, request.info.maxTokens}
           /\ \A i \in 1..Len(body.tools.list) :
                 LET tool == body.tools.list[i]
                 IN /\ tool.strict <=> tool.name \notin McpToolNames
                    /\ (tool.parameters.via = "normalizeObjectAdditionalPropertiesFalse")
                          <=> tool.name \in McpToolNames

\* A Responses request with a token limit, an MCP tool that is not strict and
\* an internal tool that is.
StrictInternalLooseMcp ==
    /\ BuiltFor("createMessage", "responses")
    /\ request.body.max_output_tokens = 4096
    /\ Len(request.body.tools.list) = 2
    /\ ~request.body.tools.list[1].strict
    /\ request.body.tools.list[1].name \in McpToolNames
    /\ request.body.tools.list[2].strict


\* The texts of the output_text parts of the message items of an answer, in
\* order.
RECURSIVE OutputTexts(_)
OutputTexts(output) ==
    IF output = <<>> THEN <<>>
    ELSE (IF Head(output).type = "message"
          THEN LET parts == SelectSeq(Head(output).content,
                                LAMBDA part : part.type = "output_text"
                                              /\ Truthy(part.text))
               IN [i \in 1..Len(parts) |-> parts[i].text]
          ELSE <<>>)
         \o OutputTexts(Tail(output))

\* C27: completePrompt over the Responses protocol returns the texts of all
\* output_text parts of the answer concatenated in order, and the empty string
\* when the answer has no text at all.
CompletePromptConcatenatesText ==
    \A c \in Calls :
        (pc[c] = "done" /\ op[c] = "completePrompt" /\ protocol[c] = "responses"
            /\ request.state = "answered")
        => /\ OutputTexts(request.response.output) # <<>>
                => result[c] = Concat(OutputTexts(request.response.output))
           /\ (OutputTexts(request.response.output) = <<>>
                /\ ~Truthy(request.response.text))
                => result[c] = ""


\* C21: a raw event is taken from the transport, one at a time, only while the
\* consumer's pull is outstanding and every normalized event produced from
\* the raw events before it has been delivered; so all that is produced and
\* not yet delivered comes from the raw event taken last.
TakenOnlyWhenDrained ==
    [][\A c \in Calls :
          /\ sent'[c] # sent[c]
                => /\ Len(sent'[c]) = Len(sent[c]) + 1
                   /\ pulling[c]
                   /\ Len(origin[c]) = Len(out[c])
          /\ \A i \in (Len(out'[c]) + 1)..Len(origin'[c]) :
                origin'[c][i] >= Len(sent'[c])]_vars

\* A raw event that produced several normalized events, of which the
\* consumer has received one and not yet pulled the next.
PartlyDelivered ==
    \E c \in Calls :
        /\ ~pulling[c]
        /\ pending[c] # <<>>
        /\ Len(out[c]) >= 1
        /\ origin[c][Len(out[c])] = Len(sent[c])
        /\ origin[c][Len(out[c]) + 1] = Len(sent[c])

\* C22: once the consumer has abandoned the sequence, no raw event is taken
\* and no normalized event is produced or delivered for that invocation: the
\* abandoning itself delivers nothing and drops what the loop body had still
\* to yield, and the invocation stays abandoned.
AbandonedStaysQuiet ==
    [][\A c \in Calls :
          pc'[c] = "abandoned"
             => /\ sent'[c] = sent[c]
                /\ out'[c] = out[c]
                /\ pending'[c] = <<>>
                /\ Len(origin'[c]) = Len(out[c])]_vars

\* An invocation abandoned over the chat protocol while a tool call was open
\* and chunks of the raw event taken last were not yet pulled.
AbandonedMidEvent ==
    \E c \in Calls :
        /\ pc[c] = "abandoned"
        /\ protocol[c] = "chat"
        /\ activeToolCallIds[c] # <<>>
        /\ Len(sent[c]) = 1
        /\ Len(out[c]) = 1
        /\ Len(ChatChunkYields(sent[c][1], <<>>)) > 1


\* C34: on the Responses path an event changes pendingToolCallId or
\* pendingToolCallName only if it is a response.output_item.added or
\* response.output_item.done event whose item is a function_call or tool_call
\* with a non-empty string call id; every other event leaves both unchanged.
PendingChangedOnlyByToolItem ==
    [][\A c \in Calls :
          (protocol[c] = "responses" /\ Len(sent'[c]) = Len(sent[c]) + 1)
          => LET event == sent'[c][Len(sent'[c])]
                 callId == IF event.item.call_id \notin {Undefined, ""}
                           THEN event.item.call_id
                           ELSE IF event.item.tool_call_id \notin {Undefined, ""}
                           THEN event.item.tool_call_id
                           ELSE event.item.id
                 records ==
                    /\ event.type \in {"response.output_item.added",
                                        "response.output_item.done"}
                    /\ event.item.present
                    /\ event.item.type \in {"function_call", "tool_call"}
                    /\ callId \notin {Undefined, ""}
             IN ~records => /\ pendingToolCallId' = pendingToolCallId
                            /\ pendingToolCallName' = pendingToolCallName]_vars

\* A tool item recorded the pending identity and an arguments-done event
\* after it left the identity in place.
PendingKeptOverArgsDone ==
    \E c \in Calls :
        /\ protocol[c] = "responses"
        /\ Len(sent[c]) = 2
        /\ sent[c][1].type = "response.output_item.added"
        /\ sent[c][1].item.type = "function_call"
        /\ sent[c][2].type \in ArgsDoneTypes
        /\ pendingToolCallId # Undefined
        /\ pendingToolCallId = sent[c][1].item.call_id
        /\ pendingToolCallName # Undefined


\* The ids the tool_calls entries of a chunk carry.
ChunkIds(chunk) ==
    { chunk.tool_calls[n].id : n \in 1..Len(chunk.tool_calls) } \ {Undefined, ""}

\* The tool_call_end at position i of the output of c answers a tool_calls
\* delta of chunk k that no earlier tool_call_end has answered.
OpenedBy(c, i, k) ==
    /\ k \in 1..Len(sent[c])
    /\ k <= origin[c][i]
    /\ out[c][i].id \in ChunkIds(sent[c][k])
    /\ \A j \in 1..(i - 1) :
          (IsEnd(out[c][j]) /\ out[c][j].id = out[c][i].id) => origin[c][j] < k

KindRank(e) ==
    CASE e.type = "text" -> 1
      [] e.type = "tool_call_partial" -> 2
      [] e.type = "reasoning" -> 3
      [] e.type = "tool_call_end" -> 4
      [] e.type = "usage" -> 5
      [] OTHER -> 0

\* The first tool_call_partial with the id of the tool_call_end at position i
\* that no tool_call_end lies between.
FirstSeen(c, i) ==
    CHOOSE p \in 1..i :
        /\ IsPartial(out[c][p]) /\ out[c][p].id = out[c][i].id
        /\ \A j \in (p + 1)..(i - 1) : ~(IsEnd(out[c][j]) /\ out[c][j].id = out[c][i].id)
        /\ \A q \in 1..(p - 1) :
              (IsPartial(out[c][q]) /\ out[c][q].id = out[c][i].id)
              => \E j \in (q + 1)..(p - 1) :
                    IsEnd(out[c][j]) /\ out[c][j].id = out[c][i].id

\* The output positions of the events chunk k produced.
ProducedBy(c, k) == { i \in 1..Len(out[c]) : origin[c][i] = k }

\* C33: on the chat path the events of a later chunk never precede those of
\* an earlier one, and within one chunk they come as text, then one
\* tool_call_partial per tool_calls entry in array order, then reasoning
\* (reasoning_content, else reasoning), then the tool_call_end events in
\* first-seen order of their ids, then usage.
ChatChunkOrder ==
    \A c \in Calls :
        protocol[c] = "chat" =>
            /\ \A i, j \in 1..Len(out[c]) :
                  i < j =>
                     /\ origin[c][i] <= origin[c][j]
                     /\ origin[c][i] = origin[c][j]
                           => /\ KindRank(out[c][i]) <= KindRank(out[c][j])
                              /\ (IsEnd(out[c][i]) /\ IsEnd(out[c][j]))
                                    => FirstSeen(c, i) < FirstSeen(c, j)
            /\ \A k \in 1..Len(sent[c]) :
                  LET mine == { i \in ProducedBy(c, k) : IsPartial(out[c][i]) }
                      tcs == sent[c][k].tool_calls
                  IN /\ Cardinality(mine) = Len(tcs)
                     /\ \A i \in mine :
                           LET n == Cardinality({ j \in mine : j <= i })
                           IN /\ out[c][i].index = tcs[n].index
                              /\ out[c][i].arguments = tcs[n].arguments
                     /\ \A i \in ProducedBy(c, k) :
                           /\ out[c][i].type = "text" => out[c][i].text = sent[c][k].content
                           /\ out[c][i].type = "reasoning" =>
                                 out[c][i].text =
                                    (IF sent[c][k].reasoning_content # Undefined
                                     THEN sent[c][k].reasoning_content
                                     ELSE sent[c][k].reasoning)

\* One chunk that produced all five kinds of event.
ChunkProducedAllKinds ==
    \E c \in Calls :
        /\ protocol[c] = "chat"
        /\ \E k \in 1..Len(sent[c]) :
              { out[c][i].type : i \in ProducedBy(c, k) }
                 = {"text", "tool_call_partial", "reasoning", "tool_call_end", "usage"}


\* The tool-call identity the handler holds, in either variant.
HeldIdentities ==
    toolCallIdentityById
    \cup (IF pendingToolCallId # Undefined \/ pendingToolCallName # Undefined
          THEN {[id |-> pendingToolCallId, name |-> pendingToolCallName]} ELSE {})

\* The name of the tool_call_partial at position i of the output of c is on
\* the event it was produced from or on an earlier tool item of the same
\* invocation.
NamedWithinCall(c, i) ==
    LET k == origin[c][i] IN
    \/ sent[c][k].name = out[c][i].name
    \/ \E j \in 1..(k - 1) :
          /\ sent[c][j].type \in OutputItemTypes
          /\ sent[c][j].item.name = out[c][i].name

\* C31: an invocation over the Responses protocol that starts after the
\* invocations before it have ended starts with no tool-call identity held by
\* the handler, and every tool_call_partial it emits takes its name from an
\* event of the same invocation; an arguments delta without id and name that
\* comes before any tool item of the invocation yields nothing.
NoIdentityLeak ==
    \A c \in Calls :
        (protocol[c] = "responses" /\ \A d \in Calls : d # c => (d < c <=> Ended(d)))
        => /\ (pc[c] = "streaming" /\ sent[c] = <<>>) => HeldIdentities = {}
           /\ \A i \in 1..Len(out[c]) :
                 IsPartial(out[c][i]) => NamedWithinCall(c, i)


(* ---------------------------------------------------------------------- *)
(* The e2e tooling: VSCodeDownloader                                       *)

\* JavaScript's null.
Null == "<null>"

\* The versions asked for, and what the cache directory holds: the version
\* of the extraction directory in it (Undefined: none) and the executable
\* findVSCodeExecutable finds in that directory (Undefined: none, it throws).
Versions == {"stable", "insiders"}

Caches == [version : Versions \cup {Undefined}, executable : {Undefined, "bin/code"}]

\* What went wrong with a source: the download (downloadFromSource throws)
\* or the extraction (extractVSCode throws). Undefined: both succeeded.
SourceErrors == {"Downloaded file too small: 0 bytes", "Unsupported archive format"}

\* The extraction directory of a version; getPlatform and getArch fall back
\* to linux and x64.
ExtractPath(version) == "vscode-" \o version \o "-linux-x64"

\* getDownloadSources with the sources in another order.
VSCodiumFirst(version) ==
    <<[name |-> "VSCodium (Open Source Build)", version |-> version]>>
    \o <<[name |-> "Official VS Code Update Service", version |-> version]>>
    \o [k \in 1..6 |-> [name |-> "Microsoft CDN " \o ToString(k), version |-> version]]

\* getDownloadSources: the official update service, the CDN URLs (three
\* commits, two URL patterns each), then VSCodium. Every platform and
\* architecture the constructor can set has a URL of each kind.
GetDownloadSources(version) ==
    <<[name |-> "Official VS Code Update Service", version |-> version]>>
    \o [k \in 1..6 |-> [name |-> "Microsoft CDN " \o ToString(k), version |-> version]]
    \o <<[name |-> "VSCodium (Open Source Build)", version |-> version]>>

\* checkCache: the executable of the cached extraction of this version, null
\* when there is none and when looking for it throws.
CheckCache(cache, version) ==
    IF cache.version = version /\ cache.executable # Undefined
    THEN ExtractPath(version) \o "/" \o cache.executable
    ELSE Null

\* downloadAndExtract is called: it makes the cache directory, looks into the
\* cache and, with nothing cached, lists the sources.
DownloadAndExtract ==
    /\ downloader.pc = "idle"
    /\ \E version \in Versions, cache \in Caches, mkdir \in {Undefined, "EACCES"} :
          LET cachedPath == CheckCache(cache, version)
              called == [version |-> version, cache |-> cache, tried |-> <<>>,
                         sources |-> <<>>, i |-> 1, returned |-> Undefined,
                         thrown |-> Undefined]
          IN  downloader' =
                 IF mkdir # Undefined
                 THEN [pc |-> "failed"] @@ [called EXCEPT !.thrown = mkdir]
                 ELSE IF cachedPath # Null
                 THEN [pc |-> "returned"] @@ [called EXCEPT !.returned = cachedPath]
                 ELSE [pc |-> "trying"]
                      @@ [called EXCEPT !.sources = GetDownloadSources(version)]
    /\ UNCHANGED <<pc, protocol, sent, out, origin, consumer, activeToolCallIds,
                   handlerFields, outcome, setup, selector>>

\* One turn of the loop over the sources: download and extract, and return
\* the executable; on an error of either, throw at the last source and go on
\* to the next one otherwise.
TrySource ==
    /\ downloader.pc = "trying"
    /\ downloader.i <= Len(downloader.sources)
    /\ \E error \in SourceErrors \cup {Undefined} :
          LET source == downloader.sources[downloader.i]
              tried == Append(downloader.tried, [name |-> source.name, error |-> error])
          IN  downloader' =
                 IF error = Undefined
                 THEN [downloader EXCEPT !.pc = "returned", !.tried = tried,
                          !.returned = ExtractPath(source.version) \o "/code"]
                 ELSE IF downloader.i = Len(downloader.sources)
                 THEN [downloader EXCEPT !.pc = "failed", !.tried = tried,
                          !.thrown = "All download sources failed. Last error: " \o error]
                 ELSE [downloader EXCEPT !.i = @ + 1, !.tried = tried]
    /\ UNCHANGED <<pc, protocol, sent, out, origin, consumer, activeToolCallIds,
                   handlerFields, outcome, setup, selector>>

NextDownload == DownloadAndExtract \/ TrySource

SpecDownload == Init /\ [][NextDownload]_vars

\* The order the sources are to be tried in.
SourceOrder ==
    <<"Official VS Code Update Service", "Microsoft CDN 1", "Microsoft CDN 2",
      "Microsoft CDN 3", "Microsoft CDN 4", "Microsoft CDN 5", "Microsoft CDN 6",
      "VSCodium (Open Source Build)">>

\* The cache holds an installation of the version asked for.
CachedInstallation ==
    /\ downloader.cache.version = downloader.version
    /\ downloader.cache.executable # Undefined

\* C35: downloadAndExtract tries the sources in list order (official, the
\* CDN URLs, VSCodium), a source only after every source before it has
\* failed; it returns the extracted path of the first source that succeeds
\* and tries none after it; it throws "All download sources failed" with the
\* last source's error only when all eight have failed; with a cached
\* installation of the version it returns that and tries no source.
SourcesTriedInOrder ==
    downloader.pc # "idle" =>
       LET n == Len(downloader.tried)
       IN  /\ n <= Len(SourceOrder)
           /\ \A k \in 1..n : downloader.tried[k].name = SourceOrder[k]
           /\ \A k \in 1..(n - 1) : downloader.tried[k].error # Undefined
           /\ downloader.pc = "trying" =>
                 /\ n < Len(SourceOrder)
                 /\ \A k \in 1..n : downloader.tried[k].error # Undefined
           /\ (downloader.pc = "returned" /\ n > 0) =>
                 /\ downloader.tried[n].error = Undefined
                 /\ downloader.returned = ExtractPath(downloader.version) \o "/code"
                 /\ ~CachedInstallation
           /\ (downloader.pc = "returned" /\ n = 0) =>
                 /\ CachedInstallation
                 /\ downloader.returned =
                       ExtractPath(downloader.version) \o "/" \o downloader.cache.executable
           /\ (downloader.pc = "failed" /\ n > 0) =>
                 /\ n = Len(SourceOrder)
                 /\ \A k \in 1..n : downloader.tried[k].error # Undefined
                 /\ downloader.thrown =
                       "All download sources failed. Last error: "
                          \o downloader.tried[n].error
           /\ (downloader.pc = "failed" /\ n = 0) => downloader.thrown = "EACCES"
           /\ CachedInstallation => n = 0

\* The third source succeeded after the first two had failed, one in the
\* download and one in the extraction.
ThirdSourceSucceeded ==
    /\ downloader.pc = "returned"
    /\ Len(downloader.tried) = 3
    /\ downloader.tried[1].error = "Downloaded file too small: 0 bytes"
    /\ downloader.tried[2].error = "Unsupported archive format"
    /\ downloader.tried[3].name = "Microsoft CDN 2"


(* ---------------------------------------------------------------------- *)
(* The e2e tooling: the global setup                                       *)

\* How a downloader settles: it returns a path or it throws.
Returns(path) == [thrown |-> FALSE, value |-> path]

Throws(message) == [thrown |-> TRUE, value |-> message]

\* The import of @vscode/test-electron and its downloader; a failed import
\* throws before the downloader is invoked.
ImportFailed == Throws("Cannot find module")

OriginalOutcomes ==
    { ImportFailed, Returns(".vscode-test/vscode-linux-x64/code"),
      Throws("getaddrinfo ENOTFOUND update.code.visualstudio.com") }

\* VSCODE_EXECUTABLE_PATH as the setup finds it.
Environments == {Undefined, "/usr/share/code/code"}

AllMethodsFailed ==
    "All VS Code download methods failed. Please check your internet connection and try again."

\* The setup starts: it makes the cache directory and invokes the custom
\* downloader.
GlobalSetup ==
    /\ setup.pc = "idle"
    /\ \E env \in Environments, mkdir \in {Undefined, "EACCES"} :
          LET started == [env |-> env, found |-> env, invoked |-> <<>>,
                          settled |-> <<>>, thrown |-> Undefined]
          IN  setup' =
                 IF mkdir # Undefined
                 THEN [pc |-> "failed"] @@ [started EXCEPT !.thrown = mkdir]
                 ELSE [pc |-> "custom"] @@ [started EXCEPT !.invoked = <<"custom">>]
    /\ UNCHANGED <<pc, protocol, sent, out, origin, consumer, activeToolCallIds,
                   handlerFields, outcome, downloader, selector>>

\* The fallback that stores what the original downloader settled with even
\* when that is an error.
FallbackStoresAnyway ==
    /\ setup.pc = "fallback"
    /\ \E o \in OriginalOutcomes :
          setup' = [setup EXCEPT
                      !.pc = IF o.thrown THEN "failed" ELSE "completed",
                      !.invoked = IF o = ImportFailed THEN @ ELSE Append(@, "original"),
                      !.settled = Append(@, o),
                      !.env = o.value,
                      !.thrown = IF o.thrown THEN AllMethodsFailed ELSE @]
    /\ UNCHANGED <<pc, protocol, sent, out, origin, consumer, activeToolCallIds,
                   handlerFields, outcome, downloader, selector>>

\* The setup's call of downloadAndUnzipVSCode: downloadAndExtract on a new
\* VSCodeDownloader, for stable.
CustomDownloaderCalled ==
    /\ setup.pc = "custom"
    /\ DownloadAndExtract
    /\ downloader'.version = "stable"

\* The downloader the setup waits for goes through its sources.
CustomDownloaderTries ==
    /\ setup.pc = "custom"
    /\ TrySource

\* The custom downloader settles: its path is stored and the setup completes,
\* or the catch block starts the fallback.
CustomDownloaderSettles ==
    /\ setup.pc = "custom"
    /\ downloader.pc \in {"returned", "failed"}
    /\ LET o == IF downloader.pc = "returned" THEN Returns(downloader.returned)
                ELSE Throws(downloader.thrown)
       IN  setup' = [setup EXCEPT
                       !.pc = IF o.thrown THEN "fallback" ELSE "completed",
                       !.settled = Append(@, o),
                       !.env = IF o.thrown THEN @ ELSE o.value]
    /\ UNCHANGED <<pc, protocol, sent, out, origin, consumer, activeToolCallIds,
                   handlerFields, outcome, downloader, selector>>

\* The fallback settles: the import and the original downloader; its path is
\* stored and the setup completes, or the setup throws.
FallbackSettles ==
    /\ setup.pc = "fallback"
    /\ \E o \in OriginalOutcomes :
          setup' = [setup EXCEPT
                      !.pc = IF o.thrown THEN "failed" ELSE "completed",
                      !.invoked = IF o = ImportFailed THEN @ ELSE Append(@, "original"),
                      !.settled = Append(@, o),
                      !.env = IF o.thrown THEN @ ELSE o.value,
                      !.thrown = IF o.thrown THEN AllMethodsFailed ELSE @]
    /\ UNCHANGED <<pc, protocol, sent, out, origin, consumer, activeToolCallIds,
                   handlerFields, outcome, downloader, selector>>

NextSetup ==
    \/ GlobalSetup
    \/ CustomDownloaderCalled
    \/ CustomDownloaderTries
    \/ CustomDownloaderSettles
    \/ FallbackSettles

SpecSetup == Init /\ [][NextSetup]_vars

\* C36: the setup invokes the original downloader only after the custom one
\* has thrown; when either returns a path, VSCODE_EXECUTABLE_PATH is that path
\* and the setup completes; it throws "All VS Code download methods failed"
\* only when both have failed, and VSCODE_EXECUTABLE_PATH is then as the setup
\* found it.
FallbackOnlyAfterCustomFailed ==
    setup.pc # "idle" =>
       LET n == Len(setup.settled)
       IN  /\ setup.invoked \in {<<>>, <<"custom">>, <<"custom", "original">>}
           /\ Len(setup.invoked) = 2 => (n >= 1 /\ setup.settled[1].thrown)
           /\ setup.pc = "completed" <=> (n >= 1 /\ ~setup.settled[n].thrown)
           /\ setup.pc = "completed" => setup.env = setup.settled[n].value
           /\ setup.thrown = AllMethodsFailed <=> (n = 2 /\ setup.settled[2].thrown)
           /\ setup.thrown = AllMethodsFailed =>
                 /\ setup.pc = "failed"
                 /\ setup.settled[1].thrown
                 /\ setup.env = setup.found
           /\ setup.pc = "failed" =>
                 (setup.thrown = AllMethodsFailed \/ (setup.invoked = <<>> /\ n = 0))
           /\ setup.pc \in {"custom", "fallback", "failed"} => setup.env = setup.found

\* Both downloaders were invoked and both threw; the variable was not set.
BothDownloadersFailed ==
    /\ setup.pc = "failed"
    /\ setup.invoked = <<"custom", "original">>
    /\ setup.thrown = AllMethodsFailed
    /\ setup.found = Undefined
    /\ setup.env = Undefined
    /\ Len(downloader.tried) = Len(SourceOrder)


(* ---------------------------------------------------------------------- *)
(* The webview: ModelSelector                                              *)

\* The upserts a mounted selector posts at most.
MaxPosts == 3

\* The provider's models in the order of their keys: mb has a banner, m1
\* has none.
ModelLists ==
    { <<[id |-> "m1", banner |-> Undefined], [id |-> "mb", banner |-> "<p>terms</p>"]>>,
      <<[id |-> "mb", banner |-> "<p>terms</p>"], [id |-> "m1", banner |-> Undefined]>>,
      <<[id |-> "m1", banner |-> Undefined]>>,
      <<>> }

\* providerModels[id]?.banner
Banner(providerModels, id) ==
    IF \E k \in 1..Len(providerModels) : providerModels[k].id = id
    THEN providerModels[CHOOSE k \in 1..Len(providerModels) : providerModels[k].id = id].banner
    ELSE Undefined

\* selectedModelId: the model id of the profile, the provider's default when
\* the profile has none.
SelectedModelId(s) ==
    IF s.configured # Undefined THEN s.configured ELSE s.providerDefaultModel

\* vscode.postMessage of an upsertApiConfiguration for a model; with it, what
\* the profile had and whether the user had acknowledged the model's banner.
PostUpsert(s, modelId, by) ==
    Append(s.posted, [type |-> "upsertApiConfiguration", text |-> s.currentApiConfigName,
                      modelId |-> modelId, by |-> by, from |-> SelectedModelId(s),
                      acknowledged |-> modelId \in s.acknowledged])

\* The selector is mounted with its props; the saved OCA model id, if any,
\* is of a model without a banner or of a model that is gone.
Mount ==
    /\ selector.pc = "idle"
    /\ \E provider \in {"oca", "openrouter"}, providerModels \in ModelLists,
          configured \in {Undefined, "m1", "mb"}, saved \in {Undefined, "m1", "gone"},
          name \in {Undefined, "default"} :
          selector' = [pc |-> "mounted", provider |-> provider,
                       providerModels |-> providerModels, configured |-> configured,
                       providerDefaultModel |-> "m1", currentApiConfigName |-> name,
                       saved |-> saved, ackOpen |-> FALSE, pendingModelId |-> Null,
                       posted |-> <<>>, applied |-> 0, effectDue |-> TRUE,
                       acknowledged |-> {}]
    /\ UNCHANGED <<pc, protocol, sent, out, origin, consumer, activeToolCallIds,
                   handlerFields, outcome, downloader, setup>>

\* The model-sync effect runs after a render that changed its dependencies.
SyncEffect ==
    /\ selector.pc = "mounted"
    /\ selector.effectDue
    /\ Len(selector.posted) < MaxPosts
    /\ LET s == selector
           first == IF Len(s.providerModels) > 0 THEN s.providerModels[1].id ELSE Undefined
           target == IF s.saved # Undefined THEN s.saved ELSE first
           known == \E k \in 1..Len(s.providerModels) : s.providerModels[k].id = target
       IN  selector' =
              IF \/ s.provider # "oca"
                 \/ target = Undefined
                 \/ s.currentApiConfigName = Undefined
                 \/ SelectedModelId(s) = target
                 \/ ~known
              THEN [s EXCEPT !.effectDue = FALSE]
              ELSE [s EXCEPT !.effectDue = FALSE,
                             !.posted = PostUpsert(s, target, "effect"),
                             !.saved = target]
    /\ UNCHANGED <<pc, protocol, sent, out, origin, consumer, activeToolCallIds,
                   handlerFields, outcome, downloader, setup>>

\* The user picks a model in the dropdown.
OnChange ==
    /\ selector.pc = "mounted"
    /\ Len(selector.posted) < MaxPosts
    /\ \E k \in 1..Len(selector.providerModels) :
          LET s == selector
              value == s.providerModels[k].id
          IN  selector' =
                 IF s.currentApiConfigName = Undefined \/ s.configured = value
                 THEN s
                 ELSE IF s.provider = "oca" /\ Banner(s.providerModels, value) # Undefined
                 THEN [s EXCEPT !.pendingModelId = value, !.ackOpen = TRUE]
                 ELSE [s EXCEPT !.saved = IF s.provider = "oca" THEN value ELSE @,
                                !.posted = PostUpsert(s, value, "onChange")]
    /\ UNCHANGED <<pc, protocol, sent, out, origin, consumer, activeToolCallIds,
                   handlerFields, outcome, downloader, setup>>

\* The user acknowledges the banner in the modal.
OnAcknowledge ==
    /\ selector.pc = "mounted"
    /\ selector.ackOpen
    /\ Len(selector.posted) < MaxPosts
    /\ LET s == [selector EXCEPT !.acknowledged =
                    IF selector.pendingModelId # Null
                    THEN @ \cup {selector.pendingModelId} ELSE @]
       IN  selector' =
              IF \/ s.currentApiConfigName = Undefined
                 \/ s.pendingModelId = Null
                 \/ s.configured = s.pendingModelId
              THEN [s EXCEPT !.ackOpen = FALSE, !.pendingModelId = Null]
              ELSE [s EXCEPT !.posted = PostUpsert(s, s.pendingModelId, "onAcknowledge"),
                             !.saved = IF s.provider = "oca" THEN s.pendingModelId ELSE @,
                             !.ackOpen = FALSE, !.pendingModelId = Null]
    /\ UNCHANGED <<pc, protocol, sent, out, origin, consumer, activeToolCallIds,
                   handlerFields, outcome, downloader, setup>>

\* The user cancels the modal.
OnCancel ==
    /\ selector.pc = "mounted"
    /\ selector.ackOpen
    /\ selector' = [selector EXCEPT !.ackOpen = FALSE, !.pendingModelId = Null]
    /\ UNCHANGED <<pc, protocol, sent, out, origin, consumer, activeToolCallIds,
                   handlerFields, outcome, downloader, setup>>

\* The extension has stored the next upsert and the selector is rendered
\* with the new apiConfiguration.
ConfigurationUpdated ==
    /\ selector.pc = "mounted"
    /\ selector.applied < Len(selector.posted)
    /\ selector' = [selector EXCEPT
                      !.applied = @ + 1,
                      !.configured = selector.posted[selector.applied + 1].modelId,
                      !.effectDue = TRUE]
    /\ UNCHANGED <<pc, protocol, sent, out, origin, consumer, activeToolCallIds,
                   handlerFields, outcome, downloader, setup>>

NextSelector ==
    \/ Mount
    \/ SyncEffect
    \/ OnChange
    \/ OnAcknowledge
    \/ OnCancel
    \/ ConfigurationUpdated

SpecSelector == Init /\ [][NextSelector]_vars

\* C37: with provider oca, every upsert the selector has posted that switches
\* the profile to a model with a banner was posted after the user had
\* acknowledged the modal for that model, whichever path posted it.
BannerModelOnlyAfterAcknowledge ==
    (selector.pc = "mounted" /\ selector.provider = "oca") =>
       \A k \in 1..Len(selector.posted) :
          (/\ Banner(selector.providerModels, selector.posted[k].modelId) # Undefined
           /\ selector.posted[k].from # selector.posted[k].modelId)
          => selector.posted[k].acknowledged

\* The handlers alone keep to it: an upsert posted by onChange or by
\* onAcknowledge for a model with a banner is an acknowledged one.
HandlersPostAcknowledged ==
    (selector.pc = "mounted" /\ selector.provider = "oca") =>
       \A k \in 1..Len(selector.posted) :
          (/\ Banner(selector.providerModels, selector.posted[k].modelId) # Undefined
           /\ selector.posted[k].by # "effect")
          => selector.posted[k].acknowledged

====
